---- MODULE Spec2Model ----
(***************************************************************************)
(* Model of the resume builder back end (src/backend/test-gemini.js):      *)
(*   - the /generate-pdf request lifecycle: workspace creation, the        *)
(*     compiler fallback chain of tryCompileLatex, the response and the    *)
(*     workspace cleanup of safeRemoveDir (specification Spec);            *)
(*   - the value injection of /generate-pdf: escapeLatex and the five      *)
(*     placeholder substitutions, on documents given as sequences of       *)
(*     characters (specification SpecInject);                              *)
(*   - the /upload-tex request: the checks of the template, the single     *)
(*     call of the external model raced against a timer, the cleaning and  *)
(*     parsing of the answer and the validation of the fields              *)
(*     (specification SpecUpload);                                         *)
(*   - two /generate-pdf requests in flight at once, each with its own     *)
(*     workspace, engine processes and callbacks, on one file system       *)
(*     (specification SpecPair);                                           *)
(*   - the round trip of a field id from /upload-tex through the form of   *)
(*     the front end to /generate-pdf (specification SpecRound);           *)
(* and of the wizard of the front end (src/frontend/src/App.tsx), its      *)
(* state, its buttons and the completions of its requests (specification   *)
(* SpecFront).                                                             *)
(***************************************************************************)
EXTENDS Integers, Sequences, FiniteSets, TLC

VARIABLES
    \* ---- /generate-pdf lifecycle ----
    pc,           \* position of the request in its chain of callbacks
    index,        \* argument of the pending / running tryNextCompiler(index), 0-based
    attempts,     \* the attempts array of tryCompileLatex
    started,      \* history: names of the engines handed to exec, in order
    checks,       \* history: what each exec callback observed, [err, pdf, by]
    execErr,      \* err of the engine process that ended: none / exit / timeout
    wsCreated,    \* history: mkdtempSync created the workspace
    wsExists,     \* the workspace directory exists on disk
    pdfBy,        \* engine whose run wrote the resume.pdf now on disk, or "none"
    logBy,        \* engine whose run wrote the resume.log now on disk, or "none"
    response,     \* the HTTP response, [kind, attempts]
    responses,    \* number of responses sent
    cleanupCalls, \* number of calls of safeRemoveDir
    rmState,      \* removal of safeRemoveDir: idle / timer / removed / gaveup
    retries,      \* retries of safeRemoveDir
    rmTries,      \* history: number of rmSync attempts
    payload,      \* what req.body holds as template and as values: the kinds of the two
    \* ---- value injection of /generate-pdf ----
    ipc,          \* off / ready / injected / reinjected
    segs,         \* the placeholders and texts the template is made of
    template,     \* req.body.template
    values,       \* req.body.values, its entries in order: <<[key, val], ...>>
    processed,    \* the variable processed of the handler
    outcome,      \* result of the structure checks after the loop
    firstPass,    \* history: processed after the first injection
    \* ---- /upload-tex ----
    upc,          \* off / idle / waiting (at the await) / responded
    reqBody,      \* req.body, the uploaded template
    modelCalls,   \* number of calls of model.generateContent
    modelState,   \* the promise of generateContent: none / pending / answered / failed
    timer,        \* the timer of the timeout promise, [state, ms]
    rawParts,     \* what the answer of the model is made of
    raw,          \* the variable raw of the handler
    cleaned,      \* the variable cleaned of the handler, when it is tested
    schema,       \* the variable schema of the handler: the parsed elements
    upResponse,   \* the HTTP response of /upload-tex
    upResponses,  \* number of responses sent by /upload-tex
    \* ---- two concurrent /generate-pdf requests ----
    tmp,          \* per request: the const tmp of its handler, or "none"
    disk,         \* per directory name: exists, and who wrote resume.tex/.pdf/.log
    qpc,          \* per request: position in its chain of callbacks
    qindex,       \* per request: the index of its tryNextCompiler
    qproc,        \* per request: the directory in the command of its running engine
    qerr,         \* per request: err of its engine process that ended
    qattempts,    \* per request: the attempts array of its tryCompileLatex call
    qresponse,    \* per request: its HTTP response
    qrm,          \* per request: removal of its safeRemoveDir, [state, retries]
    \* ---- the front end (App.tsx) ----
    step,            \* 'upload', 'fill' or 'done'
    uiTemplate,      \* the state template: the text of the textarea
    uiSchema,        \* the state schema
    uiError,         \* the state error: "none" for null, else which message
    loading,         \* the state loading
    backendStatus,   \* 'checking', 'online' or 'offline'
    troubleshooting, \* the state troubleshooting: "empty" or "some"
    formValues,      \* the state formValues, as entries [key, val]
    pending,         \* per kind of request: how many fetches are in flight
    sinceReset,      \* history: resetApp ran and no upload has succeeded since
    lastEvent        \* history: the handler or completion that ran last

genVars == <<pc, index, attempts, started, checks, execErr, wsCreated, wsExists,
             pdfBy, logBy, response, responses, cleanupCalls, rmState, retries,
             rmTries, payload>>

injVars == <<ipc, segs, template, values, processed, outcome, firstPass>>

upVars == <<upc, reqBody, modelCalls, modelState, timer, rawParts, raw, cleaned,
            schema, upResponse, upResponses>>

pairVars == <<tmp, disk, qpc, qindex, qproc, qerr, qattempts, qresponse, qrm>>

frontVars == <<step, uiTemplate, uiSchema, uiError, loading, backendStatus,
               troubleshooting, formValues, pending, sinceReset, lastEvent>>

vars == <<genVars, injVars, upVars, pairVars, frontVars>>

----------------------------------------------------------------------------
(* Text.  A string is a sequence of one-character strings.                 *)

RECURSIVE Concat(_)
Concat(seqs) == IF seqs = <<>> THEN <<>> ELSE Head(seqs) \o Concat(Tail(seqs))

\* The grave accent, which the lexer of the notation rejects inside a string.
GRAVE == "grave"

Digits == <<"0", "1", "2", "3", "4", "5", "6", "7", "8", "9">>

IsDigit(c) == \E d \in 1..Len(Digits) : Digits[d] = c

DigitVal(c) == (CHOOSE d \in 1..Len(Digits) : Digits[d] = c) - 1

\* The least element of a non-empty set of integers.
Least(S) == CHOOSE j \in S : \A k \in S : j <= k

\* String.prototype.replace with a string replacement: the expansion of the
\* replacement for one match (GetSubstitution of ECMAScript).  $$ is a
\* dollar, $& the match, $ with a grave accent the text before the match,
\* $ with a quote the text after it, $n and $nn a capture when the regex has
\* that many groups; any other $ is literal.  The text up to the next $ is
\* copied as it is.
RECURSIVE GetSubstitution(_, _, _, _, _, _)
GetSubstitution(rep, i, matched, before, after, caps) ==
    LET dollars == {k \in i..(Len(rep) - 1) : rep[k] = "$"}
    IN IF dollars = {} THEN SubSeq(rep, i, Len(rep))
       ELSE LET d == Least(dollars)
                c == rep[d + 1]
                rest(k) == GetSubstitution(rep, k, matched, before, after, caps)
                sub == CASE c = "$" -> <<"$">> \o rest(d + 2)
                         [] c = "&" -> matched \o rest(d + 2)
                         [] c = GRAVE -> before \o rest(d + 2)
                         [] c = "'" -> after \o rest(d + 2)
                         [] IsDigit(c) ->
                              LET d1 == DigitVal(c)
                                  two == d + 2 <= Len(rep) /\ IsDigit(rep[d + 2])
                                  nn == IF two THEN 10 * d1 + DigitVal(rep[d + 2]) ELSE 0
                              IN IF two /\ nn >= 1 /\ nn <= Len(caps)
                                    THEN caps[nn] \o rest(d + 3)
                                 ELSE IF d1 >= 1 /\ d1 <= Len(caps)
                                    THEN caps[d1] \o rest(d + 2)
                                 ELSE <<"$">> \o rest(d + 1)
                         [] OTHER -> <<"$">> \o rest(d + 1)
            IN SubSeq(rep, i, d - 1) \o sub

\* The regular expressions of the program are of three shapes:
\*   [kind |-> "class", set]        one character of a set, e.g. /[{}]/
\*   [kind |-> "lit", pre]          a literal text, e.g. /<<key>>/
\*   [kind |-> "body", pre]         (pre)[^}]*?(\}) : a literal text, the
\*                                  shortest run of non-} characters, and }
IsPrefixAt(s, i, pre) ==
    /\ i + Len(pre) - 1 <= Len(s)
    /\ \A k \in 1..Len(pre) : s[i + k - 1] = pre[k]

\* Position of the first } at or after position i of s, 0 when there is none.
FirstClose(s, i) ==
    LET closes == {k \in i..Len(s) : s[k] = "}"}
    IN IF closes = {} THEN 0 ELSE Least(closes)

\* Length of the match of regex re at position i of s, 0 when it does not match.
MatchLen(s, i, re) ==
    CASE re.kind = "class" -> IF s[i] \in re.set THEN 1 ELSE 0
      [] re.kind = "lit" -> IF IsPrefixAt(s, i, re.pre) THEN Len(re.pre) ELSE 0
      [] re.kind = "body" ->
           IF ~IsPrefixAt(s, i, re.pre) THEN 0
           ELSE LET j == FirstClose(s, i + Len(re.pre))
                IN IF j = 0 THEN 0 ELSE j - i + 1

\* The capture groups of a match: (pre) and (\}) for a body pattern.
Captures(re) == IF re.kind = "body" THEN <<re.pre, <<"}">> >> ELSE <<>>

\* s.replace(re, rep) for a regex with the g flag: the matches are found
\* left to right without overlap, each is replaced by the expansion of rep;
\* the search resumes after the end of the match.
RECURSIVE ReplaceFrom(_, _, _, _)
ReplaceFrom(s, i, re, rep) ==
    LET starts == {j \in i..Len(s) : MatchLen(s, j, re) > 0}
    IN IF starts = {} THEN SubSeq(s, i, Len(s))
       ELSE LET j == Least(starts)
                n == MatchLen(s, j, re)
            IN SubSeq(s, i, j - 1)
               \o GetSubstitution(rep, 1, SubSeq(s, j, j + n - 1),
                                  SubSeq(s, 1, j - 1), SubSeq(s, j + n, Len(s)),
                                  Captures(re))
               \o ReplaceFrom(s, j + n, re, rep)

ReplaceAll(s, re, rep) == ReplaceFrom(s, 1, re, rep)

TEXTBACKSLASH == <<"\\", "t", "e", "x", "t", "b", "a", "c", "k", "s", "l", "a", "s", "h">>

\* escapeLatex(text): four replace calls in sequence.  The regex of the
\* fourth, /\textbackslash\{\}/, begins with \t, which in a regular
\* expression is the TAB character.
escapeLatex(text) ==
    ReplaceAll(
      ReplaceAll(
        ReplaceAll(
          ReplaceAll(text, [kind |-> "class", set |-> {"\\"}],
                     TEXTBACKSLASH \o <<"{", "}">>),
          [kind |-> "class", set |-> {"{", "}"}], <<"\\", "$", "&">>),
        [kind |-> "class", set |-> {"$", "&", "%", "#", "^", "_", "~"}],
        <<"\\", "$", "&">>),
      [kind |-> "lit", pre |-> <<"\t">> \o Tail(Tail(TEXTBACKSLASH)) \o <<"{", "}">>],
      TEXTBACKSLASH \o <<"{", "}">>)

RegexSpecials == {".", "*", "+", "?", "^", "$", "{", "}", "(", ")", "|", "[", "]", "\\"}

\* escKey = key.replace(/[.*+?^${}()|[\]\\]/g, '\\$&')
EscapeKey(key) ==
    ReplaceAll(key, [kind |-> "class", set |-> RegexSpecials], <<"\\", "$", "&">>)

\* The text matched by the regex source escKey: a backslash makes the
\* character after it match itself.
RECURSIVE RegexLiteral(_)
RegexLiteral(src) ==
    LET escapes == {k \in 1..(Len(src) - 1) : src[k] = "\\"}
    IN IF escapes = {} THEN src
       ELSE LET e == Least(escapes)
            IN SubSeq(src, 1, e - 1) \o <<src[e + 1]>>
               \o RegexLiteral(SubSeq(src, e + 2, Len(src)))

\* The five regular expressions built for a key.
newCmdRegex(escKey) ==
    [kind |-> "body",
     pre |-> <<"\\", "n", "e", "w", "c", "o", "m", "m", "a", "n", "d", "{", "\\">>
             \o RegexLiteral(escKey) \o <<"}", "{">>]

defRegex(escKey) ==
    [kind |-> "body",
     pre |-> <<"\\", "d", "e", "f", "\\">> \o RegexLiteral(escKey) \o <<"{">>]

placeholderRegex(escKey) ==
    [kind |-> "lit", pre |-> <<"{">> \o RegexLiteral(escKey) \o <<"}">>]

varRegex(escKey) ==
    [kind |-> "lit",
     pre |-> <<"\\", "V", "A", "R", "{">> \o RegexLiteral(escKey) \o <<"}">>]

bracketRegex(escKey) ==
    [kind |-> "lit", pre |-> <<"<", "<">> \o RegexLiteral(escKey) \o <<">", ">">>]

\* The five replacements for one key, in the order of the source:
\* \newcommand{\key}{..}, \def\key{..}, {key}, \VAR{key}, <<key>>.
ReplaceFive(doc, escKey, safeVal) ==
    ReplaceAll(
      ReplaceAll(
        ReplaceAll(
          ReplaceAll(
            ReplaceAll(doc, newCmdRegex(escKey),
                       <<"$", "1">> \o safeVal \o <<"$", "2">>),
            defRegex(escKey), <<"$", "1">> \o safeVal \o <<"$", "2">>),
          placeholderRegex(escKey), safeVal),
        varRegex(escKey), safeVal),
      bracketRegex(escKey), safeVal)

\* One iteration of the loop over Object.entries(values).  The values of the
\* model are strings, on which String(val || '') is the identity.
InjectField(doc, key, val) == ReplaceFive(doc, EscapeKey(key), escapeLatex(val))

\* for (const [key, val] of Object.entries(values)) { ... }: the entries of
\* the ValueMap, a sequence of [key, val], are applied in order.
RECURSIVE InjectAll(_, _)
InjectAll(doc, entries) ==
    IF entries = <<>> THEN doc
    ELSE InjectAll(InjectField(doc, Head(entries).key, Head(entries).val), Tail(entries))

\* processed.includes(marker)
Includes(s, marker) == \E i \in 1..Len(s) : IsPrefixAt(s, i, marker)

DOCUMENTCLASS ==
    <<"\\", "d", "o", "c", "u", "m", "e", "n", "t", "c", "l", "a", "s", "s">>

BEGINDOCUMENT ==
    <<"\\", "b", "e", "g", "i", "n", "{", "d", "o", "c", "u", "m", "e", "n", "t", "}">>

StructureOutcome_DocumentclassOnly(doc) ==
    IF ~Includes(doc, DOCUMENTCLASS) THEN "missing_documentclass" ELSE "ok"

\* The structure checks that follow the injection loop.
StructureOutcome(doc) ==
    IF ~Includes(doc, DOCUMENTCLASS) THEN "missing_documentclass"
    ELSE IF ~Includes(doc, BEGINDOCUMENT) THEN "missing_begin_document"
    ELSE "ok"

----------------------------------------------------------------------------
(* /upload-tex: the cleaning of the answer of the model, its parsing and    *)
(* the validation of the fields.  In the text of an answer one JSON value   *)
(* that is not an array (an object, null, a number) is one symbol.          *)

Whitespace == {" ", "\n"}

Most(S) == CHOOSE x \in S : \A y \in S : y <= x

\* s.trim()
Trim(s) ==
    LET ink == {i \in 1..Len(s) : s[i] \notin Whitespace}
    IN IF ink = {} THEN <<>> ELSE SubSeq(s, Least(ink), Most(ink))

FENCE == <<GRAVE, GRAVE, GRAVE>>

FENCEJSON == FENCE \o <<"j", "s", "o", "n">>

\* s.replace(/^.*?FENCEjson\s*/s, ''): the text up to the first fence that
\* is followed by json, that fence, and the whitespace after it.
StripThroughJsonFence(s) ==
    LET occ == {i \in 1..Len(s) : IsPrefixAt(s, i, FENCEJSON)}
    IN IF occ = {} THEN s
       ELSE LET ink == {i \in (Least(occ) + Len(FENCEJSON))..Len(s) :
                           s[i] \notin Whitespace}
            IN IF ink = {} THEN <<>> ELSE SubSeq(s, Least(ink), Len(s))

\* s.replace(/\s*FENCE.*$/s, ''): the leftmost match starts at the
\* whitespace before the first fence and runs to the end of the text.
StripFromFence(s) ==
    LET occ == {i \in 1..Len(s) : IsPrefixAt(s, i, FENCE)}
    IN IF occ = {} THEN s
       ELSE SubSeq(s, 1,
                   Least({p \in 1..Least(occ) :
                             \A k \in p..(Least(occ) - 1) : s[k] \in Whitespace}) - 1)

\* s.replace(/^GRAVE+|GRAVE+$/g, ''): the grave accents at the start, then
\* those at the end.
StripTicks(s) ==
    LET lead == Least({i \in 1..(Len(s) + 1) : i = Len(s) + 1 \/ s[i] # GRAVE})
        ink == {i \in lead..Len(s) : s[i] # GRAVE}
    IN IF ink = {} THEN <<>> ELSE SubSeq(s, lead, Most(ink))

\* cleaned.match(/\[[\s\S]*\]/): from the first [ that has a ] after it to
\* the last ] of the text; the empty text stands for null.
jsonMatch(s) ==
    LET closes == {j \in 1..Len(s) : s[j] = "]"}
        opens == {i \in 1..Len(s) : s[i] = "[" /\ \E j \in closes : j > i}
    IN IF opens = {} THEN <<>> ELSE SubSeq(s, Least(opens), Most(closes))

\* The variable cleaned where the handler tests its first and last character.
Cleaned(rawText) ==
    LET c == Trim(StripTicks(StripFromFence(StripThroughJsonFence(Trim(rawText)))))
    IN IF jsonMatch(c) # <<>> THEN jsonMatch(c) ELSE c

StartsWith(s, c) == Len(s) > 0 /\ s[1] = c

EndsWith(s, c) == Len(s) > 0 /\ s[Len(s)] = c

\* JSON values.
Str(s) == [t |-> "string", s |-> s, n |-> 0]

Num(n) == [t |-> "number", s |-> <<>>, n |-> n]

Undefined == [t |-> "undefined", s |-> <<>>, n |-> 0]

Obj(id, label, default) == [t |-> "object", id |-> id, label |-> label, default |-> default]

NonObj(t) == [t |-> t, id |-> Undefined, label |-> Undefined, default |-> Undefined]

\* The symbols that stand for the elements of an array, and their values.
ItemTokens ==
    {"oFull", "oLower", "oUpper", "oBang", "oBlank", "oNoLabel", "oEmptyId",
     "oNumId", "null", "1"}

ItemOf(tok) ==
    CASE tok = "oFull" ->
           Obj(Str(<<"F", "u", "l", "l", " ", "N", "a", "m", "e", "!">>),
               Str(<<"N", "a", "m", "e">>), Undefined)
      [] tok = "oLower" ->
           Obj(Str(<<"n", "a", "m", "e">>), Str(<<" ", "N", "m", " ">>),
               Str(<<" ", "d", " ">>))
      [] tok = "oUpper" ->
           Obj(Str(<<"N", "a", "m", "e">>), Str(<<"N", "2">>), Num(7))
      [] tok = "oBang" -> Obj(Str(<<"!">>), Str(<<"L">>), Str(<<>>))
      [] tok = "oBlank" -> Obj(Str(<<"x", "_", "1">>), Str(<<" ">>), Num(0))
      [] tok = "oNoLabel" -> Obj(Str(<<"y">>), Undefined, Undefined)
      [] tok = "oEmptyId" -> Obj(Str(<<>>), Str(<<"L">>), Undefined)
      [] tok = "oNumId" -> Obj(Num(5), Str(<<"L">>), Undefined)
      [] tok = "null" -> NonObj("null")
      [] tok = "1" -> NonObj("number")

NotWhitespace(c) == c \notin Whitespace

\* JSON.parse(cleaned) on a text that holds no array inside an array: after
\* the whitespace between the symbols is skipped, the text is [ ], or [ and ]
\* around elements separated by commas.  Everything else is a SyntaxError.
JSONParse(s) ==
    LET t == SelectSeq(s, NotWhitespace)
        n == Len(t)
    IN IF /\ n >= 2
          /\ t[1] = "["
          /\ t[n] = "]"
          /\ n = 2 \/ /\ n % 2 = 1
                      /\ \A k \in 2..(n - 1) :
                            IF k % 2 = 0 THEN t[k] \in ItemTokens ELSE t[k] = ","
       THEN [ok |-> TRUE, value |-> [k \in 1..((n - 1) \div 2) |-> ItemOf(t[2 * k])]]
       ELSE [ok |-> FALSE, value |-> <<>>]

UpperCase ==
    <<"A", "B", "C", "D", "E", "F", "G", "H", "I", "J", "K", "L", "M",
      "N", "O", "P", "Q", "R", "S", "T", "U", "V", "W", "X", "Y", "Z">>

LowerCase ==
    <<"a", "b", "c", "d", "e", "f", "g", "h", "i", "j", "k", "l", "m",
      "n", "o", "p", "q", "r", "s", "t", "u", "v", "w", "x", "y", "z">>

\* s.toLowerCase()
ToLowerCase(s) ==
    [i \in 1..Len(s) |->
       IF \E k \in 1..Len(UpperCase) : UpperCase[k] = s[i]
          THEN LowerCase[CHOOSE k \in 1..Len(UpperCase) : UpperCase[k] = s[i]]
          ELSE s[i]]

\* The characters that /[^a-z0-9_]/ does not match.
IsIdChar(c) ==
    \/ \E k \in 1..Len(LowerCase) : LowerCase[k] = c
    \/ IsDigit(c)
    \/ c = "_"

\* String(item.default || ''): undefined, null, the empty string and 0 give
\* the empty string; a number gives its digit.
DefaultText(v) ==
    CASE v.t = "string" -> v.s
      [] v.t = "number" -> IF v.n = 0 THEN <<>> ELSE <<Digits[v.n + 1]>>
      [] OTHER -> <<>>

\* The test of schema.filter, on the element as the model gave it.
ItemPasses(item) ==
    /\ item.t = "object"
    /\ item.id.t = "string"
    /\ item.label.t = "string"
    /\ Len(item.id.s) > 0
    /\ Len(item.label.s) > 0

\* The function of .map: the field built from an element that passed.
MapItem(item) ==
    [id |-> SelectSeq(ToLowerCase(item.id.s), IsIdChar),
     label |-> Trim(item.label.s),
     default |-> Trim(DefaultText(item.default))]

validatedSchema_Reversed(parsed) ==
    [k \in 1..Len(SelectSeq(parsed, ItemPasses)) |->
       MapItem(SelectSeq(parsed, ItemPasses)[Len(SelectSeq(parsed, ItemPasses)) + 1 - k])]

validatedSchema(parsed) ==
    [k \in 1..Len(SelectSeq(parsed, ItemPasses)) |->
       MapItem(SelectSeq(parsed, ItemPasses)[k])]

\* The responses of /upload-tex.
NoText == [has |-> FALSE, text |-> <<>>]

\* text.slice(0, 500) + '...', on the texts of the model, all shorter than 500.
Preview(text) == [has |-> TRUE, text |-> text \o <<".", ".", ".">>]

UpResp(status, error) ==
    [status |-> status, error |-> error, raw |-> NoText, cleaned |-> NoText,
     schema |-> <<>>, totalFound |-> 0, validFields |-> 0]

NoUpResponse == UpResp(0, "none")

TIMEOUT_MS == 45000

TimeoutMessage == "AI extraction failed: Timeout after 45s"

\* The end of the handler from the test of validatedSchema.length.
SchemaResponse_AllowEmpty(parsed) ==
    [UpResp(200, "") EXCEPT !.schema = validatedSchema(parsed),
                            !.totalFound = Len(parsed),
                            !.validFields = Len(validatedSchema(parsed))]

SchemaResponse(parsed) ==
    IF Len(validatedSchema(parsed)) = 0
       THEN UpResp(400, "No valid fields found in template")
       ELSE [UpResp(200, "") EXCEPT !.schema = validatedSchema(parsed),
                                    !.totalFound = Len(parsed),
                                    !.validFields = Len(validatedSchema(parsed))]

\* The handler from "let cleaned = raw.trim()" to its response.  A text that
\* starts with [ and parses is an array, so the response for a value that is
\* not an array is never sent.
AnswerResponse(rawText) ==
    IF ~(StartsWith(Cleaned(rawText), "[") /\ EndsWith(Cleaned(rawText), "]"))
       THEN [UpResp(500, "AI returned invalid JSON format")
               EXCEPT !.raw = Preview(rawText), !.cleaned = Preview(Cleaned(rawText))]
    ELSE IF ~JSONParse(Cleaned(rawText)).ok
       THEN [UpResp(500, "Failed to parse AI response as JSON")
               EXCEPT !.cleaned = Preview(Cleaned(rawText))]
    ELSE SchemaResponse(JSONParse(Cleaned(rawText)).value)

\* The two checks of the uploaded template that come before the call of the
\* model.
UploadCheck_EmptyOnly(body) ==
    IF Len(body) = 0 THEN "No LaTeX provided" ELSE "ok"

UploadCheck(body) ==
    IF Trim(body) = <<>> THEN "No LaTeX provided"
    ELSE IF ~Includes(Trim(body), DOCUMENTCLASS)
       THEN "Invalid LaTeX template: Missing \\documentclass"
    ELSE "ok"

----------------------------------------------------------------------------
(* tryCompileLatex: the configured engines, in order.                      *)

compilers_Reordered ==
    << [name |-> "tectonic-system"], [name |-> "tectonic-local"], [name |-> "pdflatex"] >>

compilers ==
    << [name |-> "tectonic-local"], [name |-> "tectonic-system"], [name |-> "pdflatex"] >>

maxRetries == 3

ExecErrs == {"none", "exit", "timeout"}

NoResponse == [kind |-> "none", attempts |-> <<>>]

Exhausted_OffByOne(i) == i >= Len(compilers) - 1

\* if (index >= compilers.length)
Exhausted(i) == i >= Len(compilers)

AttemptSuccess_ExitCodeOnly(err, pdfOnDisk) == err = "none"

\* success: !err && fs.existsSync(pdfPath)
AttemptSuccess(err, pdfOnDisk) == err = "none" /\ pdfOnDisk

NextIndex_Retry(i) == i

\* setTimeout(() => tryNextCompiler(index + 1), 1000)
NextIndex(i) == i + 1

\* fullLog = stdout + stderr, prefixed by resume.log when it exists and can be read;
\* a log is modelled by the set of engine runs whose text it holds.
FullLog(name, logOnDisk, readOk) ==
    IF logOnDisk # "none" /\ readOk THEN {logOnDisk, name} ELSE {name}

\* safeRemoveDir(dirPath): counts the call; when the directory exists, sets
\* retries to 0 and arms the 500 ms timer of attempt.  It never throws: the
\* body is wrapped in try/catch and fs.existsSync does not throw.
safeRemoveDir(dirExists) ==
    /\ cleanupCalls' = cleanupCalls + 1
    /\ IF dirExists
          THEN rmState' = "timer" /\ retries' = 0
          ELSE UNCHANGED <<rmState, retries>>

\* The kinds of value that req.body can hold for template and for values,
\* and what typeof gives for each.
TypeOf(kind) == IF kind \in {"object", "array", "null"} THEN "object" ELSE kind

Payloads == [template : {"string", "number", "undefined"},
             values : {"object", "array", "null", "string", "undefined"}]

\* The ways /generate-pdf can end before the workspace is created, for a
\* payload: the typeof test; Object.entries(null) throwing into the catch
\* block; the two structure checks on the processed document.
RejectionsOf(p) ==
    IF TypeOf(p.template) # "string" \/ TypeOf(p.values) # "object"
       THEN {"invalid_payload"}
    ELSE IF p.values = "null" THEN {"processing_error"}
    ELSE {"missing_documentclass", "missing_begin_document"}

\* The payloads that reach mkdtempSync.
Compilable(p) == TypeOf(p.template) = "string" /\ TypeOf(p.values) = "object" /\ p.values # "null"

GenInit ==
    /\ pc = "idle"
    /\ index = 0
    /\ attempts = <<>>
    /\ started = <<>>
    /\ checks = <<>>
    /\ execErr = "none"
    /\ wsCreated = FALSE
    /\ wsExists = FALSE
    /\ pdfBy = "none"
    /\ logBy = "none"
    /\ response = NoResponse
    /\ responses = 0
    /\ cleanupCalls = 0
    /\ rmState = "idle"
    /\ retries = 0
    /\ rmTries = 0
    /\ payload = [template |-> "none", values |-> "none"]

InjectOff ==
    /\ ipc = "off"
    /\ segs = <<>>
    /\ template = <<>>
    /\ values = <<>>
    /\ processed = <<>>
    /\ outcome = "none"
    /\ firstPass = <<>>

NotParsed == [parsed |-> FALSE, value |-> <<>>]

NoParts == [pre |-> <<>>, array |-> FALSE, items |-> <<>>, spaced |-> FALSE, suf |-> <<>>]

UploadFresh ==
    /\ reqBody = <<>>
    /\ modelCalls = 0
    /\ modelState = "none"
    /\ timer = [state |-> "none", ms |-> 0]
    /\ rawParts = NoParts
    /\ raw = <<>>
    /\ cleaned = <<>>
    /\ schema = NotParsed
    /\ upResponse = NoUpResponse
    /\ upResponses = 0

UploadOff == upc = "off" /\ UploadFresh

\* The requests and the directory names that mkdtempSync can give.
Reqs == {"r1", "r2"}

Dirs == {"latex-a", "latex-b"}

NoDir == [exists |-> FALSE, tex |-> "none", pdf |-> "none", log |-> "none"]

PairFresh ==
    /\ tmp = [r \in Reqs |-> "none"]
    /\ disk = [d \in Dirs |-> NoDir]
    /\ qindex = [r \in Reqs |-> 0]
    /\ qproc = [r \in Reqs |-> "none"]
    /\ qerr = [r \in Reqs |-> "none"]
    /\ qattempts = [r \in Reqs |-> <<>>]
    /\ qresponse = [r \in Reqs |-> NoResponse]
    /\ qrm = [r \in Reqs |-> [state |-> "idle", retries |-> 0]]

PairOff == qpc = [r \in Reqs |-> "off"] /\ PairFresh

\* The kinds of request of the front end.
FetchKinds == {"health", "gemini", "upload", "generate"}

\* The state of App when it is mounted, before the effect runs.
FrontFresh ==
    /\ uiTemplate = <<>>
    /\ uiSchema = <<>>
    /\ uiError = "none"
    /\ loading = FALSE
    /\ backendStatus = "checking"
    /\ troubleshooting = "empty"
    /\ formValues = <<>>
    /\ sinceReset = FALSE

FrontOff ==
    /\ step = "off"
    /\ pending = [k \in FetchKinds |-> 0]
    /\ lastEvent = [h |-> "none", result |-> "none"]
    /\ FrontFresh

Init == GenInit /\ InjectOff /\ UploadOff /\ PairOff /\ FrontOff

----------------------------------------------------------------------------
(* /generate-pdf and tryCompileLatex.  Every action is one turn of the     *)
(* event loop: a handler or callback run to completion.                    *)

compileCallback_RemoveBeforeSend(err, atts, pdfOnDisk, dirExists) ==
    IF err \/ ~pdfOnDisk
       THEN /\ safeRemoveDir(dirExists)
            /\ response' = [kind |-> "compile_failed", attempts |-> atts]
            /\ responses' = responses + 1
            /\ pc' = "done"
       ELSE /\ safeRemoveDir(dirExists)
            /\ pc' = "sending"
            /\ UNCHANGED <<response, responses>>

\* The callback handed to tryCompileLatex by /generate-pdf, called with
\* (err, attempts): the failure branch cleans up and answers 500 with the
\* attempt list, the other branch starts res.sendFile.
compileCallback(err, atts, pdfOnDisk, dirExists) ==
    IF err \/ ~pdfOnDisk
       THEN /\ safeRemoveDir(dirExists)
            /\ response' = [kind |-> "compile_failed", attempts |-> atts]
            /\ responses' = responses + 1
            /\ pc' = "done"
       ELSE /\ pc' = "sending"
            /\ UNCHANGED <<response, responses, cleanupCalls, rmState, retries>>

\* tryNextCompiler(i): reports failure when the list is exhausted, else hands
\* engine i to exec.  exec may throw synchronously (a spawn error that is not
\* reported through the callback); nothing in the call chain catches it: in
\* the route handler Express answers with its default error page, in a timer
\* callback the exception is uncaught.
tryNextCompiler(i, execThrows, inHandler, dirExists) ==
    /\ index' = i
    /\ IF Exhausted(i)
          THEN /\ compileCallback(TRUE, attempts, pdfBy # "none", dirExists)
               /\ started' = started
          ELSE IF execThrows
          THEN /\ pc' = "aborted"
               /\ started' = started
               /\ response' = IF inHandler
                                 THEN [kind |-> "uncaught_exception", attempts |-> <<>>]
                                 ELSE response
               /\ responses' = IF inHandler THEN responses + 1 ELSE responses
               /\ UNCHANGED <<cleanupCalls, rmState, retries>>
          ELSE /\ pc' = "running"
               /\ started' = Append(started, compilers[i + 1].name)
               /\ UNCHANGED <<response, responses, cleanupCalls, rmState, retries>>

RejectKinds ==
    {"invalid_payload", "missing_documentclass", "missing_begin_document",
     "processing_error"}

\* /generate-pdf, the returns before the workspace is created: invalid
\* payload, missing structure after injection, exception while injecting.
GenerateRejected(kind) ==
    /\ pc = "idle"
    /\ payload' \in {p \in Payloads : kind \in RejectionsOf(p)}
    /\ pc' = "rejected"
    /\ response' = [kind |-> kind, attempts |-> <<>>]
    /\ responses' = responses + 1
    /\ UNCHANGED <<index, attempts, started, checks, execErr, wsCreated, wsExists,
                   pdfBy, logBy, cleanupCalls, rmState, retries, rmTries>>
    /\ UNCHANGED <<injVars, upVars, pairVars, frontVars>>

\* /generate-pdf, mkdtempSync succeeds and writeFileSync throws.
GenerateWriteFailed ==
    /\ pc = "idle"
    /\ payload' \in {p \in Payloads : Compilable(p)}
    /\ wsCreated' = TRUE
    /\ wsExists' = TRUE
    /\ safeRemoveDir(TRUE)
    /\ response' = [kind |-> "write_failed", attempts |-> <<>>]
    /\ responses' = responses + 1
    /\ pc' = "done"
    /\ UNCHANGED <<index, attempts, started, checks, execErr, pdfBy, logBy, rmTries>>
    /\ UNCHANGED <<injVars, upVars, pairVars, frontVars>>

\* /generate-pdf, the document is written and tryCompileLatex starts the chain.
GenerateStart(execThrows) ==
    /\ pc = "idle"
    /\ payload' \in {p \in Payloads : Compilable(p)}
    /\ wsCreated' = TRUE
    /\ wsExists' = TRUE
    /\ tryNextCompiler(0, execThrows, TRUE, TRUE)
    /\ UNCHANGED <<attempts, checks, execErr, pdfBy, logBy, rmTries>>
    /\ UNCHANGED <<injVars, upVars, pairVars, frontVars>>

\* The engine process ends: exit 0, non-zero exit, or killed by the 45 s
\* timeout of exec; it may have written resume.pdf and resume.log.
EngineExit(err, wrotePdf, wroteLog) ==
    /\ pc = "running"
    /\ pc' = "exited"
    /\ execErr' = err
    /\ pdfBy' = IF wrotePdf THEN compilers[index + 1].name ELSE pdfBy
    /\ logBy' = IF wroteLog THEN compilers[index + 1].name ELSE logBy
    /\ UNCHANGED <<index, attempts, started, checks, wsCreated, wsExists, response,
                   responses, cleanupCalls, rmState, retries, rmTries>>
    /\ UNCHANGED payload
    /\ UNCHANGED <<injVars, upVars, pairVars, frontVars>>

\* The exec callback of tryNextCompiler: records the attempt, then either
\* calls back with success or removes the partial artifact (a failing
\* unlinkSync is ignored) and arms the 1 s timer for the next engine.
ExecCallback(readOk, unlinkOk) ==
    /\ pc = "exited"
    /\ LET name == compilers[index + 1].name
           pdfOnDisk == pdfBy # "none"
           ok == AttemptSuccess(execErr, pdfOnDisk)
           atts == Append(attempts,
                          [compiler |-> name, success |-> ok, error |-> execErr,
                           log |-> FullLog(name, logBy, readOk)])
       IN /\ attempts' = atts
          /\ checks' = Append(checks, [err |-> execErr, pdf |-> pdfOnDisk, by |-> pdfBy])
          /\ IF ok
                THEN /\ compileCallback(FALSE, atts, pdfOnDisk, wsExists)
                     /\ UNCHANGED <<index, pdfBy>>
                ELSE /\ pdfBy' = IF pdfOnDisk /\ unlinkOk THEN "none" ELSE pdfBy
                     /\ index' = NextIndex(index)
                     /\ pc' = "backoff"
                     /\ UNCHANGED <<response, responses, cleanupCalls, rmState, retries>>
    /\ UNCHANGED <<started, execErr, wsCreated, wsExists, logBy, rmTries>>
    /\ UNCHANGED payload
    /\ UNCHANGED <<injVars, upVars, pairVars, frontVars>>

\* The 1 s timer set by a failed attempt fires: tryNextCompiler(index + 1).
BackoffTimer(execThrows) ==
    /\ pc = "backoff"
    /\ tryNextCompiler(index, execThrows, FALSE, wsExists)
    /\ UNCHANGED <<attempts, checks, execErr, wsCreated, wsExists, pdfBy, logBy, rmTries>>
    /\ UNCHANGED payload
    /\ UNCHANGED <<injVars, upVars, pairVars, frontVars>>

SendFileDone_NoCleanupOnError(sendErr) ==
    /\ pc = "sending"
    /\ response' = [kind |-> IF sendErr THEN "send_error" ELSE "pdf", attempts |-> <<>>]
    /\ responses' = responses + 1
    /\ IF sendErr
          THEN UNCHANGED <<cleanupCalls, rmState, retries>>
          ELSE safeRemoveDir(wsExists)
    /\ pc' = "done"
    /\ UNCHANGED <<index, attempts, started, checks, execErr, wsCreated, wsExists,
                   pdfBy, logBy, rmTries>>
    /\ UNCHANGED payload
    /\ UNCHANGED <<injVars, upVars, pairVars, frontVars>>

\* The callback of res.sendFile: the transfer completed or failed; either
\* way the workspace is handed to safeRemoveDir.
SendFileDone(sendErr) ==
    /\ pc = "sending"
    /\ response' = [kind |-> IF sendErr THEN "send_error" ELSE "pdf", attempts |-> <<>>]
    /\ responses' = responses + 1
    /\ safeRemoveDir(wsExists)
    /\ pc' = "done"
    /\ UNCHANGED <<index, attempts, started, checks, execErr, wsCreated, wsExists,
                   pdfBy, logBy, rmTries>>
    /\ UNCHANGED payload
    /\ UNCHANGED <<injVars, upVars, pairVars, frontVars>>

RmOutcomes == {"ok", "ENOTEMPTY", "EBUSY"}

\* attempt, the timer callback of safeRemoveDir: rmSync removes the
\* directory or throws; a throw is retried after 1 s only while
\* ++retries < maxRetries and the code is ENOTEMPTY, else a warning is logged.
RmAttempt(result) ==
    /\ rmState = "timer"
    /\ rmTries' = rmTries + 1
    /\ IF result = "ok"
          THEN /\ wsExists' = FALSE
               /\ pdfBy' = "none"
               /\ logBy' = "none"
               /\ rmState' = "removed"
               /\ UNCHANGED retries
          ELSE /\ retries' = retries + 1
               /\ rmState' = IF retries + 1 < maxRetries /\ result = "ENOTEMPTY"
                                THEN "timer" ELSE "gaveup"
               /\ UNCHANGED <<wsExists, pdfBy, logBy>>
    /\ UNCHANGED <<pc, index, attempts, started, checks, execErr, wsCreated, response,
                   responses, cleanupCalls>>
    /\ UNCHANGED payload
    /\ UNCHANGED <<injVars, upVars, pairVars, frontVars>>

Next ==
    \/ \E kind \in RejectKinds : GenerateRejected(kind)
    \/ GenerateWriteFailed
    \/ \E execThrows \in BOOLEAN : GenerateStart(execThrows)
    \/ \E err \in ExecErrs, wrotePdf \in BOOLEAN, wroteLog \in BOOLEAN :
          EngineExit(err, wrotePdf, wroteLog)
    \/ \E readOk \in BOOLEAN, unlinkOk \in BOOLEAN : ExecCallback(readOk, unlinkOk)
    \/ \E execThrows \in BOOLEAN : BackoffTimer(execThrows)
    \/ \E sendErr \in BOOLEAN : SendFileDone(sendErr)
    \/ \E result \in RmOutcomes : RmAttempt(result)

Spec == Init /\ [][Next]_vars

\* The same program when every pending callback, timer and process exit
\* eventually happens.
SpecLive == Spec /\ WF_vars(Next)

----------------------------------------------------------------------------
(* Claims about the compiler chain and the workspace.                      *)

EngineOrder == <<"tectonic-local", "tectonic-system", "pdflatex">>

NoDuplicates(seq) == \A i, j \in 1..Len(seq) : i # j => seq[i] # seq[j]

\* C1: the engines are tried in the order tectonic-local, tectonic-system,
\* pdflatex and the chain stops at the first success: when attempt k is the
\* successful one, the attempt list has exactly k entries in engine order,
\* entries 1..k-1 have success = FALSE, exactly k engines were started, and
\* the request has moved on to sending the PDF.
C1_FirstSuccessStops ==
    /\ Len(started) <= Len(EngineOrder)
    /\ Len(attempts) <= Len(started)
    /\ \A i \in 1..Len(started) : started[i] = EngineOrder[i]
    /\ \A i \in 1..Len(attempts) : attempts[i].compiler = EngineOrder[i]
    /\ \A k \in 1..Len(attempts) :
          attempts[k].success =>
             /\ Len(attempts) = k
             /\ \A j \in 1..(k - 1) : ~attempts[j].success
             /\ Len(started) = k
             /\ pc \in {"sending", "done"}

C1_Witness ==
    /\ pc = "sending"
    /\ Len(attempts) = 3
    /\ ~attempts[1].success /\ ~attempts[2].success /\ attempts[3].success

\* C2: the failure payload of /generate-pdf is sent only when every engine
\* has failed, and it carries the full attempt list of tryCompileLatex: one
\* entry per engine, in order, all with success = FALSE; a request that ended
\* after all engines failed got that payload.
C2_AllFailedReportsFullList ==
    /\ response.kind = "compile_failed" =>
          /\ response.attempts = attempts
          /\ Len(attempts) = Len(EngineOrder)
          /\ \A i \in 1..Len(attempts) :
                attempts[i].compiler = EngineOrder[i] /\ ~attempts[i].success
    /\ (/\ pc = "done"
        /\ Len(attempts) = Len(EngineOrder)
        /\ \A i \in 1..Len(attempts) : ~attempts[i].success)
          => response.kind = "compile_failed"

C2_Witness ==
    /\ response.kind = "compile_failed"
    /\ Len(response.attempts) = 3
    /\ \E i \in 1..3 : response.attempts[i].error = "none"
    /\ \E i \in 1..3 : response.attempts[i].error = "timeout"

\* C3: an attempt is recorded successful exactly when the engine ended
\* without error (no non-zero exit, no timeout) and resume.pdf was on disk
\* when the callback ran; a successful attempt is the last one and no further
\* engine is started, a failed attempt advances the chain to the next index.
C3_SuccessIffCleanExitAndArtifact ==
    /\ Len(checks) = Len(attempts)
    /\ \A i \in 1..Len(attempts) :
          /\ attempts[i].success = (checks[i].err = "none" /\ checks[i].pdf)
          /\ attempts[i].success => (Len(started) = i /\ index = i - 1)
          /\ ~attempts[i].success => index >= i

C3_Witness ==
    /\ Len(attempts) = 3
    /\ checks[1].err = "none" /\ ~checks[1].pdf /\ ~attempts[1].success
    /\ checks[2].err = "timeout" /\ checks[2].pdf /\ ~attempts[2].success
    /\ attempts[3].success

\* C4: whenever a later engine is started, resume.pdf is not on disk, and an
\* attempt is recorded successful only if its own run wrote the artifact.
C4_NoStaleArtifact ==
    /\ (pc = "running" /\ index > 0) => pdfBy = "none"
    /\ \A i \in 1..Len(attempts) :
          attempts[i].success => checks[i].by = attempts[i].compiler

\* C5: each engine is attempted at most once per request: the attempt list
\* and the list of started engines have no repeated engine name and no more
\* entries than there are engines.
C5_AtMostOneAttemptPerEngine ==
    /\ Len(attempts) <= Len(EngineOrder)
    /\ Len(started) <= Len(EngineOrder)
    /\ NoDuplicates([i \in 1..Len(attempts) |-> attempts[i].compiler])
    /\ NoDuplicates(started)

C5_Witness ==
    /\ Len(attempts) = 3
    /\ \A i \in 1..3 : ~attempts[i].success
    /\ pc = "done"

\* C6: safeRemoveDir is called at most once per request, and exactly once
\* when the request ended with a write failure, a compilation failure, a
\* sent PDF or a send error; it is only called for a created workspace; and
\* no removal attempt, whatever its outcome, changes the response.
C6_CleanupState ==
    /\ cleanupCalls <= 1
    /\ cleanupCalls = 1 => wsCreated
    /\ pc = "done" =>
          /\ response.kind \in {"write_failed", "compile_failed", "pdf", "send_error"}
          /\ cleanupCalls = 1
    /\ rmState # "idle" => cleanupCalls = 1

C6_CleanupOncePerOutcome ==
    /\ []C6_CleanupState
    /\ [][rmTries' # rmTries =>
             /\ response' = response
             /\ responses' = responses
             /\ pc' = pc /\ pc = "done"]_vars

C6_Witness ==
    /\ pc = "done"
    /\ response.kind = "pdf"
    /\ cleanupCalls = 1
    /\ rmState = "gaveup"
    /\ rmTries = 3

\* C7: every request that created a workspace and has ended, normally or by
\* an uncaught exception, has handed the workspace to safeRemoveDir.
C7_WorkspaceReleasedOnEveryExit ==
    (wsCreated /\ pc \in {"done", "aborted"}) => cleanupCalls >= 1

\* C23: the engines of a request run one after the other: at most one engine
\* has been started and not yet recorded, and an engine is started only when
\* the callback of every earlier one has run, its attempt is recorded and
\* no resume.pdf of it is left on disk.
C23_AttemptsSequential ==
    /\ [](Len(started) <= Len(attempts) + 1)
    /\ [](pc = "running" => Len(started) = Len(attempts) + 1)
    /\ [][started' # started =>
             /\ Len(attempts) = Len(started)
             /\ Len(checks) = Len(started)
             /\ pdfBy = "none"]_vars

\* C26: a failed removal is retried, whatever made it fail, until one
\* succeeds or three attempts have been made; then no attempt is pending.
C26_RemovalRetriedUntilBound ==
    /\ rmTries <= 3
    /\ rmState = "timer" => rmTries < 3
    /\ rmState = "gaveup" => rmTries = 3

\* C27: a request refused before compilation created no workspace and
\* started no engine, and a payload whose template is not a string or whose
\* values is not an object (null included) is refused as an invalid payload.
C27_RejectionsHaveNoWorkspace ==
    /\ pc = "rejected" =>
          /\ ~wsCreated /\ ~wsExists
          /\ started = <<>> /\ attempts = <<>>
          /\ cleanupCalls = 0
          /\ responses = 1
    /\ (pc # "idle"
          /\ (payload.template # "string" \/ payload.values \notin {"object", "array"}))
       => (pc = "rejected" /\ response.kind = "invalid_payload")

\* C28: a request that reached compilation ends with one response, the PDF
\* or the failure payload, after at most three attempts.
C28_ChainTerminates ==
    /\ [](Len(attempts) <= 3 /\ responses <= 1)
    /\ (wsCreated /\ pc # "idle") ~>
          (pc = "done" /\ responses = 1
             /\ response.kind \in {"pdf", "send_error", "compile_failed", "write_failed"})

\* C31: the log recorded for an attempt holds text of that attempt's own
\* engine run only: its output and the resume.log it wrote, never a
\* resume.log that an earlier attempt left in the workspace.
C31_LogIsOwn ==
    \A i \in 1..Len(attempts) : attempts[i].log = {attempts[i].compiler}

\* C32: while resume.pdf is being sent no removal of the workspace has been
\* asked for and the workspace and the PDF are on disk; the removal is asked
\* for in the step that ends the transfer, with or without error; and the
\* attempt list of a failure response is the list of the attempts made,
\* which no later step of the removal changes.
C32_WorkspaceOutlivesTransfer ==
    /\ [](pc = "sending" =>
             /\ cleanupCalls = 0 /\ rmState = "idle"
             /\ wsExists /\ pdfBy # "none"
             /\ responses = 0)
    /\ [][(cleanupCalls' # cleanupCalls /\ response'.kind \in {"pdf", "send_error"})
             => (pc = "sending" /\ pc' = "done" /\ cleanupCalls' = 1)]_vars
    /\ [](response.kind = "compile_failed" =>
             /\ response.attempts = attempts
             /\ Len(response.attempts) = Len(compilers))
    /\ [][response.kind = "compile_failed" => response' = response]_vars

\* The PDF was sent and the workspace was removed afterwards.
C32_Witness ==
    /\ pc = "done" /\ response.kind = "pdf"
    /\ cleanupCalls = 1 /\ rmState = "removed" /\ ~wsExists

----------------------------------------------------------------------------
(* Value injection: the inputs and the steps.                              *)

MaxSegs == 2
MaxValLen == 2
MaxExtra == 1
MaxSpecialSegs == 1

SeqsUpTo(S, n) == UNION {[1..k -> S] : k \in 0..n}

Key == <<"n">>

\* The text of one piece of a template: a placeholder for a key in one of
\* the five conventions of the injection loop, or plain text.
SegText(g) ==
    CASE g.kind = "newcommand" ->
           <<"\\", "n", "e", "w", "c", "o", "m", "m", "a", "n", "d", "{", "\\">>
           \o g.key \o <<"}", "{">> \o g.body \o <<"}">>
      [] g.kind = "def" ->
           <<"\\", "d", "e", "f", "\\">> \o g.key \o <<"{">> \o g.body \o <<"}">>
      [] g.kind = "brace" -> <<"{">> \o g.key \o <<"}">>
      [] g.kind = "var" -> <<"\\", "V", "A", "R", "{">> \o g.key \o <<"}">>
      [] g.kind = "angle" -> <<"<", "<">> \o g.key \o <<">", ">">>
      [] g.kind = "text" -> g.body

TemplateText(gs) == Concat([i \in 1..Len(gs) |-> SegText(gs[i])])

Placeholder(kind, body) == [kind |-> kind, key |-> Key, body |-> body]

AllFive ==
    << Placeholder("newcommand", <<"x">>), Placeholder("def", <<"x">>),
       Placeholder("brace", <<>>), Placeholder("var", <<>>), Placeholder("angle", <<>>) >>

Segments ==
    {AllFive[i] : i \in 1..Len(AllFive)}
    \cup {[kind |-> "text", key |-> <<>>, body |-> <<"a">>],
          [kind |-> "text", key |-> <<>>, body |-> DOCUMENTCLASS \o BEGINDOCUMENT]}

\* Characters of the values that are tried in every combination: the
\* backslash, the closing brace, the reserved symbol $, a digit, the
\* character of the key.
ValChars == {"\\", "}", "$", "1", "n"}

\* Further values: the opening brace, each other reserved symbol and a letter alone, and $ followed by each
\* character that makes a replacement directive.  A $ followed by a quote or
\* a grave accent copies the rest of the document into every site, so these
\* values are tried on the shortest templates only.
SpecialVals ==
    {<<c>> : c \in {"{", "&", "%", "#", "^", "_", "~", "a"}}
    \cup {<<"$", c>> : c \in {"'", GRAVE, "&", "2"}}

\* The requests: a short template with a value over ValChars; a shorter
\* template with a further value; a template holding all five conventions,
\* and up to MaxExtra further pieces, with a value over ValChars.
Requests ==
    (SeqsUpTo(Segments, MaxSegs) \X SeqsUpTo(ValChars, MaxValLen))
    \cup (SeqsUpTo(Segments, MaxSpecialSegs) \X SpecialVals)
    \cup ({AllFive \o gs : gs \in SeqsUpTo(Segments, MaxExtra)}
          \X SeqsUpTo(ValChars, MaxValLen))

\* Requests whose ValueMap has no entry, or entries for up to two of three
\* ids: the id of the placeholders above, a second id, and an id that is a
\* word of the document-body start marker.  The entries come in either
\* order; a value is empty, a letter, or the text of a placeholder for the
\* second id.  The pieces include the square-bracket placeholder.
MaxEntrySegs == 2

KeyM == <<"m">>

DocKey == <<"d", "o", "c", "u", "m", "e", "n", "t">>

\* [fieldname], the second form of pattern 5 of the extraction prompt, for
\* the id of the placeholders above.  The injection loop has no pattern for
\* it, so it is a piece of plain text.
SquarePlaceholder == <<"[">> \o Key \o <<"]">>

EntrySegments ==
    {[kind |-> "brace", key |-> Key, body |-> <<>>],
     [kind |-> "angle", key |-> Key, body |-> <<>>],
     [kind |-> "newcommand", key |-> Key, body |-> <<"x">>],
     [kind |-> "angle", key |-> KeyM, body |-> <<>>],
     [kind |-> "text", key |-> <<>>, body |-> SquarePlaceholder],
     [kind |-> "text", key |-> <<>>, body |-> DOCUMENTCLASS],
     [kind |-> "text", key |-> <<>>, body |-> DOCUMENTCLASS \o BEGINDOCUMENT]}

EntryVals == {<<>>, <<"a">>, <<"<", "<", "m", ">", ">">>}

Entries == [key : {Key, KeyM, DocKey}, val : EntryVals]

ValueMaps ==
    {<<>>} \cup {<<e>> : e \in Entries}
    \cup {w \in {<<e, f>> : e \in Entries, f \in Entries} : w[1].key # w[2].key}

EntryRequests == SeqsUpTo(EntrySegments, MaxEntrySegs) \X ValueMaps

InitInject ==
    /\ GenInit
    /\ \/ \E r \in Requests :
             /\ segs = r[1]
             /\ template = TemplateText(r[1])
             /\ values = << [key |-> Key, val |-> r[2]] >>
             /\ processed = TemplateText(r[1])
       \/ \E r \in EntryRequests :
             /\ segs = r[1]
             /\ template = TemplateText(r[1])
             /\ values = r[2]
             /\ processed = TemplateText(r[1])
    /\ ipc = "ready"
    /\ outcome = "none"
    /\ firstPass = <<>>
    /\ UploadOff
    /\ PairOff
    /\ FrontOff

\* /generate-pdf from "let processed = template" to the structure checks.
Inject ==
    /\ ipc = "ready"
    /\ processed' = InjectAll(template, values)
    /\ firstPass' = processed'
    /\ outcome' = StructureOutcome(processed')
    /\ ipc' = "injected"
    /\ UNCHANGED <<segs, template, values>>
    /\ UNCHANGED <<genVars, upVars, pairVars, frontVars>>

\* The same steps on a request whose template is the document produced by
\* the first injection, with the same ValueMap.
Reinject ==
    /\ ipc = "injected"
    /\ processed' = InjectAll(processed, values)
    /\ outcome' = StructureOutcome(processed')
    /\ ipc' = "reinjected"
    /\ UNCHANGED <<segs, template, values, firstPass>>
    /\ UNCHANGED <<genVars, upVars, pairVars, frontVars>>

NextInject == Inject \/ Reinject

SpecInject == InitInject /\ [][NextInject]_vars

\* The round trip from extraction to injection.  The template holds one
\* placeholder for a name; the model reports the field under that exact
\* name; /upload-tex returns validatedSchema of it; the front end keys its
\* form values by the returned id (onUpload), the user keeps the default or
\* types a value (handleInputChange), and onGenerate posts them as the
\* ValueMap.  The names: a lower-case letter, the same in upper case, with a
\* hyphen, with an underscore and a digit.  The \VAR form is left to C25.
RoundNames == {<<"n">>, <<"N">>, <<"n", "-">>, <<"n", "_", "1">>}

RoundKinds == {"newcommand", "def", "brace", "angle"}

RoundDefaults == {<<>>, <<"d">>}

RoundTyped == {"keep", "type"}

\* const defaults = {}; data.schema.forEach(f => { defaults[f.id] = f.default })
Defaults(fields) ==
    [k \in 1..Len(fields) |-> [key |-> fields[k].id, val |-> fields[k].default]]

\* handleInputChange: setFormValues(prev => ({ ...prev, [fieldId]: value }))
handleInputChange(prev, fieldId, value) ==
    IF \E k \in 1..Len(prev) : prev[k].key = fieldId
       THEN [k \in 1..Len(prev) |->
               IF prev[k].key = fieldId THEN [key |-> fieldId, val |-> value] ELSE prev[k]]
       ELSE Append(prev, [key |-> fieldId, val |-> value])

\* The form values for the schema returned for one reported field.
FormValues(name, default, typed) ==
    LET fields == validatedSchema(<<Obj(Str(name), Str(<<"L">>), Str(default))>>)
    IN IF typed = "type"
          THEN handleInputChange(Defaults(fields), fields[1].id, <<"a">>)
          ELSE Defaults(fields)

RoundRequests ==
    {<<[kind |-> "text", key |-> <<>>, body |-> doc],
       [kind |-> kind, key |-> name, body |-> <<"x">>]>> :
        doc \in {<<>>, DOCUMENTCLASS \o BEGINDOCUMENT}, kind \in RoundKinds,
        name \in RoundNames}

InitRound ==
    /\ GenInit
    /\ \E gs \in RoundRequests, default \in RoundDefaults, typed \in RoundTyped :
          /\ segs = gs
          /\ template = TemplateText(gs)
          /\ values = FormValues(gs[2].key, default, typed)
          /\ processed = TemplateText(gs)
    /\ ipc = "ready"
    /\ outcome = "none"
    /\ firstPass = <<>>
    /\ UploadOff
    /\ PairOff
    /\ FrontOff

SpecRound == InitRound /\ [][NextInject]_vars

----------------------------------------------------------------------------
(* Claims about the injection.                                             *)

\* The substitution as the claims describe it: every match of the regex is
\* replaced by the given text as it is (for a definition pattern, between
\* the matched opening and the closing brace).
RECURSIVE ReplaceVerbatimFrom(_, _, _, _)
ReplaceVerbatimFrom(s, i, re, text) ==
    LET starts == {j \in i..Len(s) : MatchLen(s, j, re) > 0}
    IN IF starts = {} THEN SubSeq(s, i, Len(s))
       ELSE LET j == Least(starts)
                n == MatchLen(s, j, re)
            IN SubSeq(s, i, j - 1)
               \o (IF re.kind = "body" THEN re.pre \o text \o <<"}">> ELSE text)
               \o ReplaceVerbatimFrom(s, j + n, re, text)

ReplaceFiveVerbatim(doc, escKey, safeVal) ==
    ReplaceVerbatimFrom(
      ReplaceVerbatimFrom(
        ReplaceVerbatimFrom(
          ReplaceVerbatimFrom(
            ReplaceVerbatimFrom(doc, 1, newCmdRegex(escKey), safeVal),
            1, defRegex(escKey), safeVal),
          1, placeholderRegex(escKey), safeVal),
        1, varRegex(escKey), safeVal),
      1, bracketRegex(escKey), safeVal)

InjectFieldVerbatim(doc, key, val) ==
    ReplaceFiveVerbatim(doc, EscapeKey(key), escapeLatex(val))

RECURSIVE InjectAllVerbatim(_, _)
InjectAllVerbatim(doc, entries) ==
    IF entries = <<>> THEN doc
    ELSE InjectAllVerbatim(InjectFieldVerbatim(doc, Head(entries).key, Head(entries).val),
                           Tail(entries))

\* C8: the text placed at every substituted site is exactly
\* escapeLatex(value): the processed document is the one obtained by putting
\* the escaped value, as it is, in place of every match; no part of the value
\* acts as a replacement directive and no other text of the template is
\* copied into a site.
C8_EscapedValueVerbatim ==
    ipc = "injected" => processed = InjectAllVerbatim(template, values)

HasVal(key) == \E i \in 1..Len(values) : values[i].key = key

ValOf(key) == values[CHOOSE i \in 1..Len(values) : values[i].key = key].val

\* A piece of the template with its placeholder filled: the escaped value in
\* place of a placeholder, or as the body of a definition.
SegFilled(g) ==
    IF g.kind = "text" \/ ~HasVal(g.key) THEN SegText(g)
    ELSE IF g.kind \in {"newcommand", "def"}
       THEN SegText([g EXCEPT !.body = escapeLatex(ValOf(g.key))])
    ELSE escapeLatex(ValOf(g.key))

HasAllFive(gs, key) ==
    \A kind \in {"newcommand", "def", "brace", "var", "angle"} :
       \E i \in 1..Len(gs) : gs[i].kind = kind /\ gs[i].key = key

\* C9: when the template holds all five conventions for a supplied id, any
\* number of times each, then after injection every such site holds the
\* escaped value and nothing else of the template has changed.
C9_AllConventionsSubstituted ==
    (ipc = "injected" /\ HasAllFive(segs, Key) /\ HasVal(Key)) =>
       processed = Concat([i \in 1..Len(segs) |-> SegFilled(segs[i])])

\* C10: injecting the same ValueMap into the output of the injection gives
\* that output again.
C10_InjectionIdempotent ==
    ipc = "reinjected" => processed = firstPass

\* C11: after the substitution a document without \documentclass or without
\* \begin{document} is refused, and the refusal names a marker that the
\* processed document lacks; this holds whatever the template held before
\* the substitution.
C11_MissingStructureRefused ==
    ipc = "injected" =>
       /\ outcome \in {"ok", "missing_documentclass", "missing_begin_document"}
       /\ (outcome = "ok") <=>
             (Includes(processed, DOCUMENTCLASS) /\ Includes(processed, BEGINDOCUMENT))
       /\ outcome = "missing_documentclass" => ~Includes(processed, DOCUMENTCLASS)
       /\ outcome = "missing_begin_document" => ~Includes(processed, BEGINDOCUMENT)

\* The template held both markers and every placeholder had a value, the
\* substitution destroyed the document-body start marker, and the request
\* was refused for it.
C11_Witness ==
    /\ ipc = "injected"
    /\ Includes(template, DOCUMENTCLASS) /\ Includes(template, BEGINDOCUMENT)
    /\ \A i \in 1..Len(segs) : segs[i].kind # "text" => HasVal(segs[i].key)
    /\ ~Includes(processed, BEGINDOCUMENT)
    /\ outcome = "missing_begin_document"

\* The pieces of the template that are placeholders for an id without an
\* entry in the ValueMap, as entries with the empty value.
MissingEntries(gs) ==
    LET missing == {i \in 1..Len(gs) : gs[i].kind # "text" /\ ~HasVal(gs[i].key)}
        f[i \in 0..Len(gs)] ==
            IF i = 0 THEN <<>>
            ELSE IF i \in missing THEN Append(f[i - 1], [key |-> gs[i].key, val |-> <<>>])
            ELSE f[i - 1]
    IN f[Len(gs)]

\* C12: an id without an entry in the ValueMap is substituted as if it had
\* been supplied with the empty string.
C12_MissingIdIsEmpty ==
    ipc = "injected" => processed = InjectAll(template, values \o MissingEntries(segs))

\* None of the five patterns for the key matches anywhere in the template.
UnknownId(key) ==
    \A re \in {newCmdRegex(EscapeKey(key)), defRegex(EscapeKey(key)),
                placeholderRegex(EscapeKey(key)), varRegex(EscapeKey(key)),
                bracketRegex(EscapeKey(key))} :
       \A j \in 1..Len(template) : MatchLen(template, j, re) = 0

Without(entries, i) == SubSeq(entries, 1, i - 1) \o SubSeq(entries, i + 1, Len(entries))

\* C13: an entry whose id matches none of the five patterns in the template
\* changes nothing: the processed document is the one obtained from the
\* ValueMap without that entry.
C13_UnknownIdIgnored ==
    ipc = "injected" =>
       \A i \in 1..Len(values) :
          UnknownId(values[i].key) => processed = InjectAll(template, Without(values, i))

\* One character escaped as the claim describes it: a backslash becomes
\* \textbackslash{}, a brace or a reserved symbol gets a backslash before it.
EscapeChar(c) ==
    IF c = "\\" THEN TEXTBACKSLASH \o <<"{", "}">>
    ELSE IF c \in {"{", "}", "$", "&", "%", "#", "^", "_", "~"} THEN <<"\\", c>>
    ELSE <<c>>

\* C24: escapeLatex escapes every character of the value once: the text put
\* for a backslash is not escaped again, one backslash gives \textbackslash{}.
C24_EscapeDoesNotReescape ==
    ipc = "injected" =>
       \A i \in 1..Len(values) :
          escapeLatex(values[i].val)
             = Concat([k \in 1..Len(values[i].val) |-> EscapeChar(values[i].val[k])])

\* C25: after the injection of a value for the id, no \VAR is left in the
\* document: every \VAR{id} was replaced as a whole.
C25_VarReplacedWhole ==
    (ipc = "injected" /\ HasVal(Key)) => ~Includes(processed, <<"\\", "V", "A", "R">>)

Reverse(seq) == [i \in 1..Len(seq) |-> seq[Len(seq) + 1 - i]]

\* C30: the processed document does not depend on the order of the entries
\* of the ValueMap.
C30_OrderIndependent ==
    ipc = "injected" => processed = InjectAll(template, Reverse(values))

\* A piece of the template with its placeholder filled by the one value of
\* the ValueMap.
RoundFilled(g) ==
    IF g.kind = "text" THEN SegText(g)
    ELSE IF g.kind \in {"newcommand", "def"}
            THEN SegText([g EXCEPT !.body = escapeLatex(values[1].val)])
            ELSE escapeLatex(values[1].val)

\* C33: when the model reports a field under the exact name of a placeholder
\* and the ValueMap is keyed by the id that /upload-tex returned for it, the
\* injection fills that placeholder with the value, whatever the name.
C33_SchemaIdsInject ==
    ipc = "injected" =>
       processed = Concat([i \in 1..Len(segs) |-> RoundFilled(segs[i])])

\* C34: a square-bracket placeholder [id], a form the extraction prompt
\* lists next to <<id>>, is replaced when the ValueMap supplies id: no such
\* placeholder is left in the processed text.
C34_SquarePlaceholderReplaced ==
    (ipc = "injected" /\ HasVal(Key)) => ~Includes(processed, SquarePlaceholder)

----------------------------------------------------------------------------
(* /upload-tex: the inputs and the steps.                                   *)

MaxItems == 2

\* The uploaded templates: empty, whitespace only, without and with
\* \documentclass.
Bodies ==
    {<<>>, <<" ", "\n">>, <<"x">>, <<"\n", "x", " ">>, DOCUMENTCLASS,
     <<" ">> \o DOCUMENTCLASS \o BEGINDOCUMENT \o <<"\n">>}

\* The text of an array of elements, compact or with whitespace.
ArrayText(items, spaced) ==
    LET sp == IF spaced THEN <<"\n">> ELSE <<>>
        sep == IF spaced THEN <<",", " ">> ELSE <<",">>
        f[i \in 0..Len(items)] ==
            IF i = 0 THEN <<>>
            ELSE IF i = 1 THEN <<items[1]>>
            ELSE f[i - 1] \o sep \o <<items[i]>>
    IN <<"[">> \o sp \o f[Len(items)] \o sp \o <<"]">>

FenceClose == <<"\n">> \o FENCE

\* What the model puts around the array: nothing; a code fence with and
\* without the tag json; a sentence before; a sentence after, without and
\* with brackets; a stray bracket; a sentence, a fence and a sentence.
Wrappers ==
    {[pre |-> <<>>, suf |-> <<>>],
     [pre |-> FENCEJSON \o <<"\n">>, suf |-> FenceClose],
     [pre |-> FENCE \o <<"\n">>, suf |-> FenceClose],
     [pre |-> <<"x", " ">>, suf |-> <<>>],
     [pre |-> <<>>, suf |-> <<" ", "x">>],
     [pre |-> <<>>, suf |-> <<" ", "x", " ", "[", "1", "]">>],
     [pre |-> <<>>, suf |-> <<"]">>],
     [pre |-> <<"x", "\n">> \o FENCEJSON \o <<"\n">>, suf |-> FenceClose \o <<"\n", "x">>]}

\* The answers of the model: an array of up to MaxItems elements in one of
\* the wrappers, or a text without an array.
Answers ==
    {[pre |-> w.pre, array |-> TRUE, items |-> items, spaced |-> spaced, suf |-> w.suf] :
        w \in Wrappers, items \in SeqsUpTo(ItemTokens, MaxItems), spaced \in BOOLEAN}
    \cup {[NoParts EXCEPT !.pre = t] : t \in {<<>>, <<"x">>, <<"[">>, FENCE}}

RawText(parts) ==
    parts.pre
    \o (IF parts.array THEN ArrayText(parts.items, parts.spaced) ELSE <<>>)
    \o parts.suf

InitUpload == GenInit /\ InjectOff /\ upc = "idle" /\ UploadFresh /\ PairOff /\ FrontOff

\* The handler of /upload-tex up to "await Promise.race": the two checks of
\* the template, then the call of the model and the timer of the timeout
\* promise.
UploadRequest(body) ==
    /\ upc = "idle"
    /\ reqBody' = body
    /\ IF UploadCheck(body) # "ok"
          THEN /\ upResponse' = UpResp(400, UploadCheck(body))
               /\ upResponses' = upResponses + 1
               /\ upc' = "responded"
               /\ UNCHANGED <<modelCalls, modelState, timer>>
          ELSE /\ modelCalls' = modelCalls + 1
               /\ modelState' = "pending"
               /\ timer' = [state |-> "armed", ms |-> TIMEOUT_MS]
               /\ upc' = "waiting"
               /\ UNCHANGED <<upResponse, upResponses>>
    /\ UNCHANGED <<rawParts, raw, cleaned, schema>>
    /\ UNCHANGED <<genVars, injVars, pairVars, frontVars>>

\* The promise of generateContent is fulfilled.  When the race is still open
\* the handler resumes: result.response.text() gives raw or throws, and the
\* handler runs to its response.  When the race is settled nothing resumes.
ModelAnswer_AlwaysResumes(parts, textThrows) ==
    /\ modelState = "pending"
    /\ modelState' = "answered"
    /\ rawParts' = parts
    /\ IF textThrows
          THEN /\ upResponse' = UpResp(500, "AI extraction failed: text")
               /\ UNCHANGED <<raw, cleaned, schema>>
          ELSE /\ raw' = RawText(parts)
               /\ cleaned' = Cleaned(raw')
               /\ schema' = IF StartsWith(cleaned', "[") /\ EndsWith(cleaned', "]")
                               /\ JSONParse(cleaned').ok
                               THEN [parsed |-> TRUE, value |-> JSONParse(cleaned').value]
                               ELSE NotParsed
               /\ upResponse' = AnswerResponse(raw')
    /\ upResponses' = upResponses + 1
    /\ upc' = "responded"
    /\ UNCHANGED <<reqBody, modelCalls, timer>>
    /\ UNCHANGED <<genVars, injVars, pairVars, frontVars>>

ModelAnswer(parts, textThrows) ==
    /\ modelState = "pending"
    /\ modelState' = "answered"
    /\ rawParts' = parts
    /\ IF upc # "waiting"
          THEN UNCHANGED <<raw, cleaned, schema, upResponse, upResponses, upc>>
          ELSE /\ IF textThrows
                     THEN /\ upResponse' = UpResp(500, "AI extraction failed: text")
                          /\ UNCHANGED <<raw, cleaned, schema>>
                     ELSE /\ raw' = RawText(parts)
                          /\ cleaned' = Cleaned(raw')
                          /\ schema' = IF StartsWith(cleaned', "[") /\ EndsWith(cleaned', "]")
                                          /\ JSONParse(cleaned').ok
                                          THEN [parsed |-> TRUE,
                                                value |-> JSONParse(cleaned').value]
                                          ELSE NotParsed
                          /\ upResponse' = AnswerResponse(raw')
               /\ upResponses' = upResponses + 1
               /\ upc' = "responded"
    /\ UNCHANGED <<reqBody, modelCalls, timer>>
    /\ UNCHANGED <<genVars, injVars, pairVars, frontVars>>

\* The promise of generateContent is rejected: the catch block answers when
\* the race is still open.
ModelError ==
    /\ modelState = "pending"
    /\ modelState' = "failed"
    /\ IF upc # "waiting"
          THEN UNCHANGED <<upResponse, upResponses, upc>>
          ELSE /\ upResponse' = UpResp(500, "AI extraction failed: API")
               /\ upResponses' = upResponses + 1
               /\ upc' = "responded"
    /\ UNCHANGED <<reqBody, modelCalls, timer, rawParts, raw, cleaned, schema>>
    /\ UNCHANGED <<genVars, injVars, pairVars, frontVars>>

\* The timer of the timeout promise fires; it is never cleared.  When the
\* race is still open the rejection reaches the catch block.
TimeoutFires ==
    /\ timer.state = "armed"
    /\ timer' = [timer EXCEPT !.state = "fired"]
    /\ IF upc # "waiting"
          THEN UNCHANGED <<upResponse, upResponses, upc>>
          ELSE /\ upResponse' = UpResp(500, TimeoutMessage)
               /\ upResponses' = upResponses + 1
               /\ upc' = "responded"
    /\ UNCHANGED <<reqBody, modelCalls, modelState, rawParts, raw, cleaned, schema>>
    /\ UNCHANGED <<genVars, injVars, pairVars, frontVars>>

NextUpload ==
    \/ \E body \in Bodies : UploadRequest(body)
    \/ /\ modelState = "pending"
       /\ \E parts \in Answers, textThrows \in BOOLEAN : ModelAnswer(parts, textThrows)
    \/ ModelError
    \/ TimeoutFires

SpecUpload == InitUpload /\ [][NextUpload]_vars

----------------------------------------------------------------------------
(* Claims about /upload-tex.                                                *)

\* The response was produced from an answer of the model.
FromAnswer ==
    /\ upc = "responded"
    /\ upResponse.error \in {"", "AI returned invalid JSON format",
                             "Failed to parse AI response as JSON",
                             "No valid fields found in template"}

HasIdAndLabel(item) ==
    /\ item.t = "object"
    /\ item.id.t = "string" /\ item.id.s # <<>>
    /\ item.label.t = "string" /\ item.label.s # <<>>

\* C14: every field of a returned schema has a non-empty id made of
\* characters of [a-z0-9_] and a non-empty label; the elements without a
\* non-empty string id or label are dropped and the others are kept.
C14_FieldsWellFormed ==
    upResponse.status = 200 =>
       /\ \A k \in 1..Len(upResponse.schema) :
             /\ upResponse.schema[k].id # <<>>
             /\ \A i \in 1..Len(upResponse.schema[k].id) :
                   IsIdChar(upResponse.schema[k].id[i])
             /\ upResponse.schema[k].label # <<>>
       /\ Len(upResponse.schema) = Len(SelectSeq(schema.value, HasIdAndLabel))

\* C15: the ids of a returned schema are pairwise distinct.
C15_IdsDistinct ==
    upResponse.status = 200 =>
       \A i, j \in 1..Len(upResponse.schema) :
          i # j => upResponse.schema[i].id # upResponse.schema[j].id

\* C16: when no element of the parsed array survives the validation the
\* request fails with the error of no fields found, and a successful
\* response never carries an empty schema.
C16_NoFieldsFound ==
    /\ upResponse.status = 200 => Len(upResponse.schema) > 0
    /\ (FromAnswer /\ schema.parsed
          /\ \A k \in 1..Len(schema.value) : ~HasIdAndLabel(schema.value[k]))
       => (upResponse.status = 400
             /\ upResponse.error = "No valid fields found in template")

\* The model answered [] and the request failed with no fields found.
C16_Witness ==
    /\ FromAnswer
    /\ rawParts.array /\ rawParts.items = <<>>
    /\ schema.parsed /\ schema.value = <<>>
    /\ upResponse.status = 400

\* C17: a template that is empty, or without \documentclass, is refused
\* with status 400 and the model is never called for it.
C17_RejectedBeforeModel ==
    (upc # "idle" /\ (Trim(reqBody) = <<>> \/ ~Includes(reqBody, DOCUMENTCLASS))) =>
       /\ modelCalls = 0
       /\ modelState = "none"
       /\ timer.state = "none"
       /\ upc = "responded"
       /\ upResponses = 1
       /\ upResponse.status = 400

\* A template with text but without \documentclass was refused.
C17_Witness ==
    /\ upc = "responded"
    /\ Trim(reqBody) # <<>>
    /\ ~Includes(reqBody, DOCUMENTCLASS)
    /\ upResponse.status = 400
    /\ modelCalls = 0

C18_State ==
    /\ modelCalls <= 1
    /\ upResponses <= 1
    /\ timer.state # "none" => timer.ms = 45000
    /\ (timer.state = "fired" \/ modelState \in {"answered", "failed"}) => upResponses = 1

\* C18: the model is called at most once per request; when the 45 s timer
\* fires before an answer the request fails with the timeout error; one
\* response is sent, and nothing that happens after it (an answer of the
\* model, the timer) changes it.
C18_SingleCallAndTimeout ==
    /\ []C18_State
    /\ [][(modelCalls' # modelCalls) => (modelCalls = 0 /\ upc = "idle")]_vars
    /\ [][(timer.state = "armed" /\ timer'.state = "fired" /\ modelState = "pending")
            => (upResponse' = UpResp(500, TimeoutMessage) /\ upResponses' = 1)]_vars
    /\ [][upResponses = 1 => (upResponse' = upResponse /\ upResponses' = 1)]_vars

\* The timer fired first, the answer of the model came later, and the
\* response is the timeout error.
C18_Witness ==
    /\ timer.state = "fired"
    /\ modelState = "answered"
    /\ rawParts.array /\ rawParts.items # <<>>
    /\ upResponses = 1
    /\ upResponse = UpResp(500, TimeoutMessage)

\* C19: an array wrapped in a code fence, with or without the tag json
\* after the opening fence, gets the response of the array alone.
C19_FenceStripped ==
    (FromAnswer /\ rawParts.array
       /\ rawParts.pre \in {FENCEJSON \o <<"\n">>, FENCE \o <<"\n">>}
       /\ rawParts.suf = FenceClose)
    => (upResponse.status = AnswerResponse(ArrayText(rawParts.items, rawParts.spaced)).status
          /\ upResponse.schema
               = AnswerResponse(ArrayText(rawParts.items, rawParts.spaced)).schema)

\* C20: when the answer is an array followed by further text, the text
\* handed to the parser is that array.
C20_FirstArrayParsed ==
    (FromAnswer /\ rawParts.array /\ rawParts.pre = <<>> /\ rawParts.suf # <<>>)
    => cleaned = ArrayText(rawParts.items, rawParts.spaced)

\* C21: when no array is obtained from the answer of the model (the cleaned
\* text is not delimited by brackets, or it does not parse) the request
\* fails with status 500 and the response carries the raw text and the
\* cleaned text.
C21_ParseFailureCarriesRawAndCleaned ==
    (FromAnswer /\ ~schema.parsed) =>
       /\ upResponse.status = 500
       /\ upResponse.raw.has
       /\ upResponse.cleaned.has

\* The positions of the parsed array whose element has a non-empty string
\* id and label, in increasing order.
KeptPositions ==
    LET f[i \in 0..Len(schema.value)] ==
            IF i = 0 THEN <<>>
            ELSE IF HasIdAndLabel(schema.value[i]) THEN Append(f[i - 1], i)
            ELSE f[i - 1]
    IN f[Len(schema.value)]

\* C29: the fields of the response are made from the elements of the array
\* of the model that pass validation, in the order of the array, and
\* validFields is their number, at most totalFound, the length of the array.
C29_SchemaKeepsOrder ==
    upResponse.status = 200 =>
       /\ Len(upResponse.schema) = Len(KeptPositions)
       /\ \A k \in 1..Len(KeptPositions) :
             /\ upResponse.schema[k].id
                  = SelectSeq(ToLowerCase(schema.value[KeptPositions[k]].id.s), IsIdChar)
             /\ upResponse.schema[k].label = Trim(schema.value[KeptPositions[k]].label.s)
       /\ upResponse.validFields = Len(upResponse.schema)
       /\ upResponse.totalFound = Len(schema.value)
       /\ upResponse.validFields <= upResponse.totalFound

\* Two elements with different ids were kept, in the order of the array.
C29_Witness ==
    /\ upResponse.status = 200
    /\ rawParts.items = <<"oLower", "oFull">>
    /\ Len(upResponse.schema) = 2
    /\ upResponse.schema[1].id = <<"n", "a", "m", "e">>
    /\ upResponse.schema[2].id # upResponse.schema[1].id

----------------------------------------------------------------------------
(* Two /generate-pdf requests in flight at once.  Each request has its own  *)
(* handler call, hence its own tmp, its own tryCompileLatex call with its   *)
(* own attempts, pdfPath and logPath, and commands built from its own       *)
(* outputDir; the file system is the one thing they share.  The requests    *)
(* are those that reach compilation.                                        *)

\* fs.mkdtempSync(prefix): creates a directory with a name that is not on
\* disk and returns it.
mkdtempSync_AnyName(fs) == Dirs

mkdtempSync(fs) == {d \in Dirs : ~fs[d].exists}

InitPair ==
    /\ GenInit /\ InjectOff /\ UploadOff /\ FrontOff
    /\ qpc = [r \in Reqs |-> "idle"] /\ PairFresh

\* safeRemoveDir(tmp) of request r.
PairRemoveDir(r) ==
    qrm' = [qrm EXCEPT ![r] = IF disk[tmp[r]].exists
                                 THEN [state |-> "timer", retries |-> 0]
                                 ELSE @]

\* The handler of r: mkdtempSync, writeFileSync of resume.tex, and
\* tryCompileLatex, which hands the first engine to exec.
PairStart(r) ==
    /\ qpc[r] = "idle"
    /\ \E d \in mkdtempSync(disk) :
          /\ tmp' = [tmp EXCEPT ![r] = d]
          /\ disk' = [disk EXCEPT ![d] = [exists |-> TRUE, tex |-> r,
                                          pdf |-> "none", log |-> "none"]]
          /\ qproc' = [qproc EXCEPT ![r] = d]
    /\ qpc' = [qpc EXCEPT ![r] = "running"]
    /\ UNCHANGED <<qindex, qerr, qattempts, qresponse, qrm>>
    /\ UNCHANGED <<genVars, injVars, upVars, frontVars>>

\* The engine process of r ends.  It worked in the directory of its command
\* line: it read resume.tex there and may have written resume.pdf and
\* resume.log there.
PairEngineExit(r, err, wrotePdf, wroteLog) ==
    /\ qpc[r] = "running"
    /\ qpc' = [qpc EXCEPT ![r] = "exited"]
    /\ qerr' = [qerr EXCEPT ![r] = err]
    /\ disk' = [disk EXCEPT ![qproc[r]].pdf = IF wrotePdf THEN r ELSE @,
                            ![qproc[r]].log = IF wroteLog THEN r ELSE @]
    /\ qproc' = [qproc EXCEPT ![r] = "none"]
    /\ UNCHANGED <<tmp, qindex, qattempts, qresponse, qrm>>
    /\ UNCHANGED <<genVars, injVars, upVars, frontVars>>

\* The exec callback of r: reads logPath and tests pdfPath, both under the
\* outputDir of r, records the attempt, then calls back with success (the
\* handler starts res.sendFile) or unlinks pdfPath and arms the 1 s timer.
PairExecCallback(r, unlinkOk) ==
    /\ qpc[r] = "exited"
    /\ qattempts' =
          [qattempts EXCEPT ![r] =
             Append(@, [compiler |-> compilers[qindex[r] + 1].name,
                        success |-> AttemptSuccess(qerr[r], disk[tmp[r]].pdf # "none"),
                        req |-> r,
                        logOf |-> disk[tmp[r]].log])]
    /\ IF AttemptSuccess(qerr[r], disk[tmp[r]].pdf # "none")
          THEN /\ qpc' = [qpc EXCEPT ![r] = "sending"]
               /\ UNCHANGED <<qindex, disk>>
          ELSE /\ disk' = [disk EXCEPT ![tmp[r]].pdf = IF unlinkOk THEN "none" ELSE @]
               /\ qindex' = [qindex EXCEPT ![r] = NextIndex(@)]
               /\ qpc' = [qpc EXCEPT ![r] = "backoff"]
    /\ qerr' = [qerr EXCEPT ![r] = "none"]
    /\ UNCHANGED <<tmp, qproc, qresponse, qrm>>
    /\ UNCHANGED <<genVars, injVars, upVars, frontVars>>

\* The 1 s timer of r fires: tryNextCompiler(index + 1) reports the failure
\* through the callback of r (safeRemoveDir, status 500 with the attempts of
\* r) or hands the next engine to exec.
PairBackoffTimer(r) ==
    /\ qpc[r] = "backoff"
    /\ IF Exhausted(qindex[r])
          THEN /\ PairRemoveDir(r)
               /\ qresponse' = [qresponse EXCEPT ![r] =
                                   [kind |-> "compile_failed", attempts |-> qattempts[r]]]
               /\ qpc' = [qpc EXCEPT ![r] = "done"]
               /\ UNCHANGED qproc
          ELSE /\ qproc' = [qproc EXCEPT ![r] = tmp[r]]
               /\ qpc' = [qpc EXCEPT ![r] = "running"]
               /\ UNCHANGED <<qresponse, qrm>>
    /\ UNCHANGED <<tmp, disk, qindex, qerr, qattempts>>
    /\ UNCHANGED <<genVars, injVars, upVars, frontVars>>

\* The callback of res.sendFile(pdfPath) of r.
PairSendFileDone(r, sendErr) ==
    /\ qpc[r] = "sending"
    /\ qresponse' = [qresponse EXCEPT ![r] =
                        [kind |-> IF sendErr THEN "send_error" ELSE "pdf",
                         attempts |-> <<>>]]
    /\ PairRemoveDir(r)
    /\ qpc' = [qpc EXCEPT ![r] = "done"]
    /\ UNCHANGED <<tmp, disk, qindex, qproc, qerr, qattempts>>
    /\ UNCHANGED <<genVars, injVars, upVars, frontVars>>

\* attempt, the timer callback of the safeRemoveDir of r.
PairRmAttempt(r, result) ==
    /\ qrm[r].state = "timer"
    /\ IF result = "ok"
          THEN /\ disk' = [disk EXCEPT ![tmp[r]] = NoDir]
               /\ qrm' = [qrm EXCEPT ![r].state = "removed"]
          ELSE /\ qrm' = [qrm EXCEPT ![r] =
                            [state |-> IF @.retries + 1 < maxRetries /\ result = "ENOTEMPTY"
                                          THEN "timer" ELSE "gaveup",
                             retries |-> @.retries + 1]]
               /\ UNCHANGED disk
    /\ UNCHANGED <<tmp, qpc, qindex, qproc, qerr, qattempts, qresponse>>
    /\ UNCHANGED <<genVars, injVars, upVars, frontVars>>

NextPair ==
    \E r \in Reqs :
       \/ PairStart(r)
       \/ \E err \in ExecErrs, wrotePdf \in BOOLEAN, wroteLog \in BOOLEAN :
             PairEngineExit(r, err, wrotePdf, wroteLog)
       \/ \E unlinkOk \in BOOLEAN : PairExecCallback(r, unlinkOk)
       \/ PairBackoffTimer(r)
       \/ \E sendErr \in BOOLEAN : PairSendFileDone(r, sendErr)
       \/ \E result \in RmOutcomes : PairRmAttempt(r, result)

SpecPair == InitPair /\ [][NextPair]_vars

\* The request holds a workspace: from mkdtempSync until its removal
\* succeeded or was given up.
InFlight(r) ==
    \/ qpc[r] \in {"running", "exited", "backoff", "sending"}
    \/ qrm[r].state = "timer"

\* C22: two requests in flight have different workspaces; every file in the
\* workspace of a request in flight was written by that request, and its
\* running engine works in that workspace; the attempts of a
\* request, and the attempts in its response, were made by its own engines
\* on its own files.
C22_RequestsIndependent ==
    /\ \A r1, r2 \in Reqs :
          (r1 # r2 /\ InFlight(r1) /\ InFlight(r2)) => tmp[r1] # tmp[r2]
    /\ \A r \in Reqs :
          InFlight(r) =>
             /\ disk[tmp[r]].exists
             /\ disk[tmp[r]].tex = r
             /\ disk[tmp[r]].pdf \in {"none", r}
             /\ disk[tmp[r]].log \in {"none", r}
             /\ qproc[r] \in {"none", tmp[r]}
    /\ \A r \in Reqs :
          /\ \A i \in 1..Len(qattempts[r]) :
                /\ qattempts[r][i].req = r
                /\ qattempts[r][i].compiler = compilers[i].name
                /\ qattempts[r][i].logOf \in {"none", r}
          /\ qresponse[r].kind = "compile_failed" => qresponse[r].attempts = qattempts[r]

\* Both requests are in flight with files on disk: one has an engine running
\* after a failed attempt, the other is sending its PDF.
C22_Witness ==
    /\ qpc["r1"] = "running" /\ qindex["r1"] = 1
    /\ qpc["r2"] = "sending"
    /\ disk[tmp["r1"]].log = "r1"
    /\ disk[tmp["r2"]].pdf = "r2"

----------------------------------------------------------------------------
(* The front end: the state of App, its buttons as they are rendered and    *)
(* disabled, and the continuations of its fetches.  A click handler runs    *)
(* up to its first await in one step; the rest of the async function runs   *)
(* in one step when the response, or the network failure, arrives.          *)

MaxPending == 2

\* The fetches of the three buttons that are in flight.
Pending == pending["gemini"] + pending["upload"] + pending["generate"]

\* What the user types into the textarea.
UiTemplates == {<<" ">>, <<"x">>, <<" ", "x">>}

\* The schemas of a 200 response of /upload-tex: one field or two, the
\* second with an empty default.
UiSchemas ==
    {<<[id |-> <<"n">>, label |-> <<"N">>, default |-> <<"d">>]>>,
     <<[id |-> <<"n">>, label |-> <<"N">>, default |-> <<"d">>],
       [id |-> <<"m">>, label |-> <<"M">>, default |-> <<>>]>>}

\* How a fetch ends: a 2xx response, another status, or a rejected promise.
FetchResults == {"ok", "error", "network"}

Tips == {"empty", "some"}

InitFront ==
    /\ GenInit /\ InjectOff /\ UploadOff /\ PairOff
    /\ step = "upload"
    /\ pending = [k \in FetchKinds |-> 0]
    /\ lastEvent = [h |-> "mount", result |-> "none"]
    /\ FrontFresh

\* The Test Gemini button: rendered when the backend is online,
\* disabled={loading}.
CanTestGemini == backendStatus = "online" /\ ~loading

\* The textarea: rendered in step 'upload',
\* disabled={loading || backendStatus !== 'online'}.
CanType == step = "upload" /\ ~(loading \/ backendStatus # "online")

CanUpload_AnyTemplate ==
    step = "upload" /\ ~(loading \/ backendStatus # "online")

\* The Parse Template button: rendered in step 'upload',
\* disabled={loading || !template.trim() || backendStatus !== 'online'}.
CanUpload ==
    step = "upload"
    /\ ~(loading \/ Trim(uiTemplate) = <<>> \/ backendStatus # "online")

\* The inputs of the form: rendered in step 'fill', disabled={loading}.
CanEdit == step = "fill" /\ ~loading

CanGenerate_WhileLoading == step = "fill"

\* The Generate button: rendered in step 'fill', disabled={loading}.
CanGenerate == step = "fill" /\ ~loading

\* Start Over (step 'fill') and Create Another Resume (step 'done'): never
\* disabled.
CanReset == step \in {"fill", "done"}

\* useEffect(() => { checkBackendHealth() }, []): the fetch of /health.
Mount ==
    /\ lastEvent.h = "mount"
    /\ pending' = [pending EXCEPT !["health"] = @ + 1]
    /\ lastEvent' = [h |-> "checkBackendHealth", result |-> "none"]
    /\ UNCHANGED <<step, uiTemplate, uiSchema, uiError, loading, backendStatus,
                   troubleshooting, formValues, sinceReset>>
    /\ UNCHANGED <<genVars, injVars, upVars, pairVars>>

\* checkBackendHealth after the await.
HealthDone(result) ==
    /\ pending["health"] > 0
    /\ pending' = [pending EXCEPT !["health"] = @ - 1]
    /\ backendStatus' = IF result = "ok" THEN "online" ELSE "offline"
    /\ lastEvent' = [h |-> "healthDone", result |-> result]
    /\ UNCHANGED <<step, uiTemplate, uiSchema, uiError, loading, troubleshooting,
                   formValues, sinceReset>>
    /\ UNCHANGED <<genVars, injVars, upVars, pairVars>>

\* onChange of the textarea: setTemplate(e.target.value)
setTemplate(text) ==
    /\ CanType
    /\ uiTemplate' = text
    /\ lastEvent' = [h |-> "setTemplate", result |-> "none"]
    /\ UNCHANGED <<step, uiSchema, uiError, loading, backendStatus, troubleshooting,
                   formValues, pending, sinceReset>>
    /\ UNCHANGED <<genVars, injVars, upVars, pairVars>>

\* testGeminiConnection up to the fetch.
testGeminiConnection ==
    /\ CanTestGemini
    /\ loading' = TRUE
    /\ uiError' = "none"
    /\ pending' = [pending EXCEPT !["gemini"] = @ + 1]
    /\ lastEvent' = [h |-> "testGeminiConnection", result |-> "none"]
    /\ UNCHANGED <<step, uiTemplate, uiSchema, backendStatus, troubleshooting,
                   formValues, sinceReset>>
    /\ UNCHANGED <<genVars, injVars, upVars, pairVars>>

\* testGeminiConnection after the await: data.success, data.error with its
\* troubleshooting, or the catch; then the finally.
GeminiDone(result, tips) ==
    /\ pending["gemini"] > 0
    /\ pending' = [pending EXCEPT !["gemini"] = @ - 1]
    /\ uiError' = CASE result = "ok" -> uiError
                    [] result = "error" -> "Gemini API test failed"
                    [] result = "network" -> "Connection test failed"
    /\ troubleshooting' = IF result = "error" THEN tips ELSE troubleshooting
    /\ loading' = FALSE
    /\ lastEvent' = [h |-> "geminiDone", result |-> result]
    /\ UNCHANGED <<step, uiTemplate, uiSchema, backendStatus, formValues, sinceReset>>
    /\ UNCHANGED <<genVars, injVars, upVars, pairVars>>

\* onUpload up to the fetch of /upload-tex.
onUpload ==
    /\ CanUpload
    /\ uiError' = "none"
    /\ troubleshooting' = "empty"
    /\ loading' = TRUE
    /\ pending' = [pending EXCEPT !["upload"] = @ + 1]
    /\ lastEvent' = [h |-> "onUpload", result |-> "none"]
    /\ UNCHANGED <<step, uiTemplate, uiSchema, backendStatus, formValues, sinceReset>>
    /\ UNCHANGED <<genVars, injVars, upVars, pairVars>>

\* onUpload after the await: the schema and its defaults and step 'fill', or
\* the error message; then the finally.
UploadDone(result, fields, tips) ==
    /\ pending["upload"] > 0
    /\ pending' = [pending EXCEPT !["upload"] = @ - 1]
    /\ IF result = "ok"
          THEN /\ uiSchema' = fields
               /\ formValues' = Defaults(fields)
               /\ step' = "fill"
               /\ sinceReset' = FALSE
               /\ UNCHANGED <<uiError, troubleshooting>>
          ELSE /\ uiError' = "Failed to parse template"
               /\ troubleshooting' = IF result = "error" THEN tips ELSE troubleshooting
               /\ UNCHANGED <<uiSchema, formValues, step, sinceReset>>
    /\ loading' = FALSE
    /\ lastEvent' = [h |-> "uploadDone", result |-> result]
    /\ UNCHANGED <<uiTemplate, backendStatus>>
    /\ UNCHANGED <<genVars, injVars, upVars, pairVars>>

\* onChange of an input of the form: handleInputChange(field.id, value)
InputChange(fieldId, value) ==
    /\ CanEdit
    /\ formValues' = handleInputChange(formValues, fieldId, value)
    /\ lastEvent' = [h |-> "handleInputChange", result |-> "none"]
    /\ UNCHANGED <<step, uiTemplate, uiSchema, uiError, loading, backendStatus,
                   troubleshooting, pending, sinceReset>>
    /\ UNCHANGED <<genVars, injVars, upVars, pairVars>>

\* onGenerate up to the fetch of /generate-pdf.
onGenerate ==
    /\ CanGenerate
    /\ uiError' = "none"
    /\ troubleshooting' = "empty"
    /\ loading' = TRUE
    /\ pending' = [pending EXCEPT !["generate"] = @ + 1]
    /\ lastEvent' = [h |-> "onGenerate", result |-> "none"]
    /\ UNCHANGED <<step, uiTemplate, uiSchema, backendStatus, formValues, sinceReset>>
    /\ UNCHANGED <<genVars, injVars, upVars, pairVars>>

\* onGenerate after the await: the download and step 'done', or the error
\* message; then the finally.
GenerateDone(result, tips) ==
    /\ pending["generate"] > 0
    /\ pending' = [pending EXCEPT !["generate"] = @ - 1]
    /\ IF result = "ok"
          THEN /\ step' = "done"
               /\ UNCHANGED <<uiError, troubleshooting>>
          ELSE /\ uiError' = "Failed to generate PDF"
               /\ troubleshooting' = IF result = "error" THEN tips ELSE troubleshooting
               /\ UNCHANGED step
    /\ loading' = FALSE
    /\ lastEvent' = [h |-> "generateDone", result |-> result]
    /\ UNCHANGED <<uiTemplate, uiSchema, backendStatus, formValues, sinceReset>>
    /\ UNCHANGED <<genVars, injVars, upVars, pairVars>>

\* resetApp, the handler of Start Over and of Create Another Resume.
resetApp ==
    /\ CanReset
    /\ step' = "upload"
    /\ uiTemplate' = <<>>
    /\ uiSchema' = <<>>
    /\ uiError' = "none"
    /\ troubleshooting' = "empty"
    /\ formValues' = <<>>
    /\ sinceReset' = TRUE
    /\ lastEvent' = [h |-> "resetApp", result |-> "none"]
    /\ UNCHANGED <<loading, backendStatus, pending>>
    /\ UNCHANGED <<genVars, injVars, upVars, pairVars>>

NextFront ==
    \/ Mount
    \/ \E result \in FetchResults : HealthDone(result)
    \/ \E text \in UiTemplates : setTemplate(text)
    \/ Pending < MaxPending /\ testGeminiConnection
    \/ \E result \in FetchResults, tips \in Tips : GeminiDone(result, tips)
    \/ Pending < MaxPending /\ onUpload
    \/ \E result \in FetchResults, fields \in UiSchemas, tips \in Tips :
          UploadDone(result, fields, tips)
    \/ \E k \in 1..Len(uiSchema) : InputChange(uiSchema[k].id, <<"a">>)
    \/ Pending < MaxPending /\ onGenerate
    \/ \E result \in FetchResults, tips \in Tips : GenerateDone(result, tips)
    \/ resetApp

SpecFront == InitFront /\ [][NextFront]_vars

----------------------------------------------------------------------------
(* Claims about the front end.                                             *)

\* C35: after resetApp the wizard is in its initial state and stays there
\* until a newly started upload succeeds: step is 'upload' and schema and
\* form values are empty (the template is the user's to type), whatever
\* request is still in flight; the response of a generation started before
\* the reset does not move step to 'done'.
C35_ResetStays ==
    sinceReset => (step = "upload" /\ uiSchema = <<>> /\ formValues = <<>>)

\* C36: a request of the three buttons starts only while loading is false
\* and sets it, so at most one is in flight, loading is true exactly while
\* one is, and every completion, with a response, an error response or a
\* network failure, leaves loading false.
C36_LoadingSerializes ==
    /\ [](Pending <= 1)
    /\ [](loading <=> Pending = 1)
    /\ [][Pending' > Pending => (~loading /\ loading')]_vars
    /\ [][Pending' < Pending => ~loading']_vars

\* A generation ended with a network failure and loading is false again.
C36_Witness ==
    /\ lastEvent = [h |-> "generateDone", result |-> "network"]
    /\ ~loading /\ Pending = 0
    /\ uiError = "Failed to generate PDF"

\* C37: step goes from 'upload' to 'fill' only when an upload returns a
\* schema, with the form values set to the defaults of its fields; from
\* 'fill' to 'done' only when a generation returns the PDF; to 'upload' only
\* through resetApp; an upload or generation that fails leaves step,
\* template and schema as they were and sets an error message; and an upload
\* starts only when the backend is online and the template is not blank.
C37_AdvancesOnSuccess ==
    /\ [][(step = "upload" /\ step' = "fill") =>
             /\ lastEvent' = [h |-> "uploadDone", result |-> "ok"]
             /\ pending'["upload"] < pending["upload"]
             /\ uiSchema' \in UiSchemas
             /\ formValues' = Defaults(uiSchema')]_vars
    /\ [][(step = "fill" /\ step' = "done") =>
             /\ lastEvent' = [h |-> "generateDone", result |-> "ok"]
             /\ pending'["generate"] < pending["generate"]]_vars
    /\ [][(step # "upload" /\ step' = "upload") => lastEvent'.h = "resetApp"]_vars
    /\ [][(/\ \E k \in {"upload", "generate"} : pending'[k] < pending[k]
           /\ lastEvent'.result # "ok") =>
             /\ step' = step /\ uiTemplate' = uiTemplate /\ uiSchema' = uiSchema
             /\ uiError' # "none"]_vars
    /\ [][pending'["upload"] > pending["upload"] =>
             /\ backendStatus = "online"
             /\ Trim(uiTemplate) # <<>>]_vars

\* An upload failed in step 'upload' and a later one succeeded; then a
\* generation returned the PDF.
C37_Witness ==
    /\ step = "done"
    /\ lastEvent = [h |-> "generateDone", result |-> "ok"]
    /\ ~sinceReset
    /\ formValues = handleInputChange(Defaults(uiSchema), <<"n">>, <<"a">>)

====
